---- MODULE Spec2Model ----
(***************************************************************************)
(* A model of cardpy (src/cardpy/main.py): Card objects on a heap, and the *)
(* Deck and Hand containers, whose `cards` lists hold references to them.  *)
(* Python exceptions are modelled by the `err` field of an operation's     *)
(* outcome; an operation that raises leaves what it had not yet mutated.   *)
(***************************************************************************)
EXTENDS Integers, Sequences, FiniteSets, TLC

VARIABLES
    heap,     \* the Card objects: heap[id] is the object with identity id
    cards,    \* cards[c] is the `cards` list (bottom to top) of container c
    kind,     \* kind[c] is the class of container c: "Deck" or "Hand"
    obj,      \* obj[c] is the identity of the container object bound to c
    nObjs,    \* number of container objects created so far (identities 1..nObjs)
    last,     \* the last call: its name, arguments and outcome
    before,   \* the call before the last one
    nOps      \* number of calls made so far

vars == <<heap, cards, kind, obj, nObjs, last, before, nOps>>

----------------------------------------------------------------------------
(* Bounds of the model *)

MaxOps == 2
MaxDeckCount == 2
MaxCount == 2
MaxMul == 2
MaxOverrun == 3
MaxShuffle == 4

----------------------------------------------------------------------------
(* Enumerations and class attributes *)

\* class Rank, in declaration (iteration) order
Rank == <<"TWO", "THREE", "FOUR", "FIVE", "SIX", "SEVEN", "EIGHT", "NINE",
          "TEN", "JACK", "QUEEN", "KING", "ACE">>

\* class Suit, in declaration (iteration) order
Suit == <<"HEARTS", "DIAMONDS", "CLUBS", "SPADES">>

\* Card.SUITS, Card.SUITS_RED, Card.SUITS_BLACK, Card.RANKS
SUITS == <<"SPADES", "HEARTS", "DIAMONDS", "CLUBS">>
SUITS_RED == <<"HEARTS", "DIAMONDS">>
SUITS_BLACK == <<"SPADES", "CLUBS">>
RANKS == <<"TWO", "THREE", "FOUR", "FIVE", "SIX", "SEVEN", "EIGHT", "NINE",
           "TEN", "JACK", "QUEEN", "KING", "ACE">>

\* the class attributes of Card that hold orderings and groupings
CardAttrs == {"COLORS", "SUITS", "SUITS_RED", "SUITS_BLACK", "RANKS", "FACE_CARDS"}

\* the methods class Hand defines (names without underscores)
HandMethods == {"append", "clear", "copy", "count", "cut", "play", "play_multiple",
                "extend", "index", "insert", "is_empty", "peek", "peek_multiple",
                "remove", "reverse", "shuffle", "sort"}

Range(s) == {s[i] : i \in 1..Len(s)}

\* list.index(x): the first position of x in s (0-based), -1 when absent
IndexOf(s, x) ==
    IF x \in Range(s) THEN (CHOOSE i \in 1..Len(s) : s[i] = x /\ \A j \in 1..(i-1) : s[j] # x) - 1
    ELSE -1

NonCard == 0      \* a value that is not a Card (ids of Cards are positive)
None == 0         \* the absent container reference

----------------------------------------------------------------------------
(* Card *)

ColorOf(s) ==
    IF s \in Range(SUITS_RED) THEN "RED"
    ELSE IF s \in Range(SUITS_BLACK) THEN "BLACK" ELSE "None"

\* Card.__init__ with enum-valued rank and suit
CardInit(r, s, f, d, h) ==
    [rank |-> r, suit |-> s, color |-> ColorOf(s), face_up |-> f, deck |-> d, hand |-> h]

\* Card.__eq__ between two Card objects
CardEq(a, b) == a.rank = b.rank /\ a.suit = b.suit

\* Card.flip on the object id: the heap afterwards
Flip(h, id) == [h EXCEPT ![id].face_up = ~h[id].face_up]

\* deepcopy(card): an independent object; the containers it refers to are copied
\* with it, so a reference to a container becomes one to a fresh object (fresh)
DeepCopy(c, fresh) ==
    [c EXCEPT !.deck = IF c.deck = None THEN None ELSE fresh,
              !.hand = IF c.hand = None THEN None ELSE fresh]

----------------------------------------------------------------------------
(* Outcomes *)

Ok(cs, ret) == [err |-> "ok", cards |-> cs, ret |-> ret]
Raise(e, cs) == [err |-> e, cards |-> cs, ret |-> <<>>]

IsCard(x) == x # NonCard
AllCards(xs) == \A i \in 1..Len(xs) : IsCard(xs[i])

----------------------------------------------------------------------------
(* Deck *)

\* a standard set with the two lengths swapped in the index arithmetic
StandardCardsSwapped(self) ==
    [i \in 1..(Len(Rank) * Len(Suit)) |->
        CardInit(Rank[((i - 1) \div Len(Rank)) + 1], Suit[((i - 1) % Len(Suit)) + 1],
                 FALSE, self, None)]

\* [Card(rank, suit, _deck=self) for rank in Rank for suit in Suit]
StandardCards(self) ==
    [i \in 1..(Len(Rank) * Len(Suit)) |->
        CardInit(Rank[((i - 1) \div Len(Suit)) + 1], Suit[((i - 1) % Len(Suit)) + 1],
                 FALSE, self, None)]

\* the identities given to k objects allocated on heap h
NewIds(h, k) == [i \in 1..k |-> Len(h) + i]

\* [deepcopy(card) for card in cs for _ in range(n)]: the new objects, in list order
DeepCopies(h, cs, n, base) ==
    [k \in 1..(Len(cs) * n) |-> DeepCopy(h[cs[((k - 1) \div n) + 1]], base + k)]

\* a constructor that repeats each card deck_count times without copying it
DeckInitNoCopy(h, nO, cs, init, deck_count) ==
    LET self == nO + 1
        std == IF init THEN StandardCards(self) ELSE <<>>
    IN  [err |-> "ok", heap |-> h \o std,
         cards |-> IF deck_count = 0 THEN <<>>
                   ELSE [k \in 1..(Len(std) * deck_count) |-> Len(h) + ((k - 1) \div deck_count) + 1],
         nObjs |-> self]
\* Deck.__init__(cards, init=..., deck_count=...): the new object's identity is
\* nO + 1; the outcome carries the heap and the object count afterwards
DeckInit(h, nO, cs, init, deck_count) ==
    LET self == nO + 1
        std == IF init THEN StandardCards(self) ELSE <<>>
        h1 == h \o std
        own == NewIds(h, Len(std))
    IN  IF Len(cs) > 0 /\ ~AllCards(cs)
        THEN [err |-> "TypeError", heap |-> h1, cards |-> <<>>, nObjs |-> self]
        ELSE LET all == own \o cs
             IN  IF deck_count = 0
                 THEN [err |-> "ok", heap |-> h1, cards |-> <<>>, nObjs |-> self]
                 ELSE IF deck_count = 1
                 THEN [err |-> "ok", heap |-> h1, cards |-> all, nObjs |-> self]
                 ELSE IF deck_count > 1
                 THEN [err |-> "ok",
                       heap |-> h1 \o DeepCopies(h1, all, deck_count, self),
                       cards |-> NewIds(h1, Len(all) * deck_count),
                       nObjs |-> self + Len(all) * deck_count]
                 ELSE [err |-> "TypeError", heap |-> h1, cards |-> all, nObjs |-> self]

\* Deck.count / Hand.count: list.count(card) under Card.__eq__
Count(h, cs, c) == Cardinality({i \in 1..Len(cs) : CardEq(h[cs[i]], c)})

\* Deck.__contains__ / Hand.__contains__
Contains(h, cs, c) == \E i \in 1..Len(cs) : CardEq(h[cs[i]], c)

\* Deck.is_empty / Hand.is_empty
IsEmpty(cs) == Len(cs) = 0

\* Deck.peek / Hand.peek
Peek(cs, from_top) ==
    IF IsEmpty(cs) THEN Raise("ValueError", cs)
    ELSE Ok(cs, <<IF from_top THEN cs[Len(cs)] ELSE cs[1]>>)

\* a draw that pops the first element
DrawBottom(cs) ==
    IF IsEmpty(cs) THEN Raise("ValueError", cs)
    ELSE Ok(SubSeq(cs, 2, Len(cs)), <<cs[1]>>)
\* a draw without the emptiness test: list.pop() on an empty list
DrawUnguarded(cs) ==
    IF IsEmpty(cs) THEN Raise("IndexError", cs)
    ELSE Ok(SubSeq(cs, 1, Len(cs) - 1), <<cs[Len(cs)]>>)
\* a draw that returns the top card and leaves it in the list
DrawKeep(cs) ==
    IF IsEmpty(cs) THEN Raise("ValueError", cs)
    ELSE Ok(cs, <<cs[Len(cs)]>>)
\* Deck.draw: list.pop() of the last element
Draw(cs) ==
    IF IsEmpty(cs) THEN Raise("ValueError", cs)
    ELSE Ok(SubSeq(cs, 1, Len(cs) - 1), <<cs[Len(cs)]>>)

\* Hand.play
Play(cs) ==
    IF IsEmpty(cs) THEN Raise("ValueError", cs)
    ELSE Ok(SubSeq(cs, 1, Len(cs) - 1), <<cs[Len(cs)]>>)

\* [self.draw() for _ in range(count)]: the loop, with acc the list built so far
RECURSIVE DrawLoop(_, _, _)
DrawLoop(cs, count, acc) ==
    IF count <= 0 THEN Ok(cs, acc)
    ELSE LET r == Draw(cs)
         IN  IF r.err # "ok" THEN Raise(r.err, r.cards)
             ELSE DrawLoop(r.cards, count - 1, acc \o r.ret)

\* draw_multiple returning the cards in the order they lay in the list
DrawMultipleBottomUp(cs, count) ==
    IF count > Len(cs) THEN Raise("ValueError", cs)
    ELSE IF count <= 0 THEN Ok(cs, <<>>)
    ELSE Ok(SubSeq(cs, 1, Len(cs) - count), SubSeq(cs, Len(cs) - count + 1, Len(cs)))
\* Deck.draw_multiple
DrawMultiple(cs, count) ==
    IF count > Len(cs) THEN Raise("ValueError", cs)
    ELSE DrawLoop(cs, count, <<>>)

\* Hand.play_multiple: the loop calls self.draw(), an attribute Hand objects
\* have only if class Hand defines it
PlayMultiple(cs, count) ==
    IF count > Len(cs) THEN Raise("ValueError", cs)
    ELSE IF count <= 0 THEN Ok(cs, <<>>)
    ELSE IF "draw" \in HandMethods THEN DrawLoop(cs, count, <<>>)
    ELSE Raise("AttributeError", cs)

\* Deck.deal, the inner loop: `for hand in hands: hand.append(self.draw())`
\* from player p on
RECURSIVE DealRound(_, _, _)
DealRound(cs, hands, p) ==
    IF p > Len(hands) THEN [err |-> "ok", cards |-> cs, hands |-> hands]
    ELSE LET r == Draw(cs)
         IN  IF r.err # "ok" THEN [err |-> r.err, cards |-> r.cards, hands |-> hands]
             ELSE DealRound(r.cards, [hands EXCEPT ![p] = Append(@, r.ret[1])], p + 1)

\* Deck.deal, the outer loop: `for _ in range(cards_per_player)`, rounds left
RECURSIVE DealLoop(_, _, _)
DealLoop(cs, hands, rounds) ==
    IF rounds <= 0 THEN [err |-> "ok", cards |-> cs, hands |-> hands]
    ELSE LET r == DealRound(cs, hands, 1)
         IN  IF r.err # "ok" THEN r ELSE DealLoop(r.cards, r.hands, rounds - 1)

\* deal handing each player all of its cards before the next player
RECURSIVE DealPlayerMajorLoop(_, _, _, _)
DealPlayerMajorLoop(cs, hands, per, p) ==
    IF p > Len(hands) THEN [err |-> "ok", cards |-> cs, hands |-> hands]
    ELSE LET r == DrawLoop(cs, per, <<>>)
         IN  DealPlayerMajorLoop(r.cards, [hands EXCEPT ![p] = r.ret], per, p + 1)
DealPlayerMajor(cs, num_players, cards_per_player) ==
    IF num_players * cards_per_player > Len(cs)
    THEN [err |-> "ValueError", cards |-> cs, hands |-> <<>>]
    ELSE DealPlayerMajorLoop(cs, [i \in 1..num_players |-> <<>>], cards_per_player, 1)
Deal(cs, num_players, cards_per_player) ==
    IF num_players * cards_per_player > Len(cs)
    THEN [err |-> "ValueError", cards |-> cs, hands |-> <<>>]
    ELSE DealLoop(cs, [i \in 1..num_players |-> <<>>], cards_per_player)

\* an extend that checks each element only as it appends it
RECURSIVE ExtendEager(_, _)
ExtendEager(cs, xs) ==
    IF xs = <<>> THEN Ok(cs, <<>>)
    ELSE IF ~IsCard(Head(xs)) THEN Raise("TypeError", cs)
    ELSE ExtendEager(Append(cs, Head(xs)), Tail(xs))
\* Deck.extend / Hand.extend
Extend(cs, xs) ==
    IF ~AllCards(xs) THEN Raise("TypeError", cs) ELSE Ok(cs \o xs, <<>>)

\* Hand.__init__(cards): a new list over the same Card objects
HandInit(cs) ==
    IF Len(cs) > 0 /\ ~AllCards(cs) THEN Raise("TypeError", <<>>)
    ELSE Ok([i \in 1..Len(cs) |-> cs[i]], <<>>)

\* a product that holds the cards once, whatever the factor
MulOnce(h, nO, cs, other) ==
    IF other < 0 THEN [err |-> "ValueError", heap |-> h, cards |-> <<>>, nObjs |-> nO]
    ELSE LET result == DeckInit(h, nO, cs, FALSE, 1)
         IN  IF other = 0 THEN [result EXCEPT !.cards = <<>>] ELSE result

\* Deck.__mul__ (and __rmul__, which calls it) with an integer:
\* the new container's identity is nO + 1
Mul(h, nO, cs, other) ==
    IF other < 0 THEN [err |-> "ValueError", heap |-> h, cards |-> <<>>, nObjs |-> nO]
    ELSE LET result == DeckInit(h, nO, cs, FALSE, 1)
         IN  IF other = 0
             THEN [result EXCEPT !.cards = <<>>]
             ELSE IF other > 1
             THEN [err |-> "ok",
                   heap |-> result.heap \o DeepCopies(result.heap, cs, other, result.nObjs),
                   cards |-> NewIds(result.heap, Len(cs) * other),
                   nObjs |-> result.nObjs + Len(cs) * other]
             ELSE result

\* Hand.__mul__ (and __rmul__): as Deck.__mul__, over Hand(self.cards)
HandMul(h, nO, cs, other) ==
    IF other < 0 THEN [err |-> "ValueError", heap |-> h, cards |-> <<>>, nObjs |-> nO]
    ELSE LET result == HandInit(cs)
         IN  IF other = 0
             THEN [err |-> "ok", heap |-> h, cards |-> <<>>, nObjs |-> nO + 1]
             ELSE IF other > 1
             THEN [err |-> "ok",
                   heap |-> h \o DeepCopies(h, cs, other, nO + 1),
                   cards |-> NewIds(h, Len(cs) * other),
                   nObjs |-> nO + 1 + Len(cs) * other]
             ELSE [err |-> "ok", heap |-> h, cards |-> result.cards, nObjs |-> nO + 1]

----------------------------------------------------------------------------
(* Ordering: Card.__lt__, Card.__gt__, and the containers' sort *)

\* Card.ranks and Card.suits, the attributes the comparisons and sort_key read
HasRanks == "ranks" \in CardAttrs
HasSuits == "suits" \in CardAttrs

\* Card.__lt__ / Card.__gt__ on two objects of the heap (b may be NonCard)
CardLt(h, a, b) ==
    IF ~IsCard(b) THEN [err |-> "NotImplemented", val |-> FALSE]
    ELSE IF ~HasRanks THEN [err |-> "AttributeError", val |-> FALSE]
    ELSE [err |-> "ok", val |-> IndexOf(RANKS, h[a].rank) < IndexOf(RANKS, h[b].rank)]
CardGt(h, a, b) ==
    IF ~IsCard(b) THEN [err |-> "NotImplemented", val |-> FALSE]
    ELSE IF ~HasRanks THEN [err |-> "AttributeError", val |-> FALSE]
    ELSE [err |-> "ok", val |-> IndexOf(RANKS, h[a].rank) > IndexOf(RANKS, h[b].rank)]

\* an ordering argument of sort: given (a list) or not (None)
NoOrder == [given |-> FALSE, order |-> <<>>]
Given(o) == [given |-> TRUE, order |-> o]

\* sort_key(card): the outcome of computing the key of one card
SortKey(c, ranks, suits) ==
    IF ~ranks.given /\ ~HasRanks THEN [err |-> "AttributeError", key |-> <<0, 0>>]
    ELSE IF ~suits.given /\ ~HasSuits THEN [err |-> "AttributeError", key |-> <<0, 0>>]
    ELSE LET rank_list == IF ranks.given THEN ranks.order ELSE RANKS
             suit_list == IF suits.given THEN suits.order ELSE SUITS
         IN  IF IndexOf(rank_list, c.rank) < 0 \/ IndexOf(suit_list, c.suit) < 0
             THEN [err |-> "ValueError", key |-> <<0, 0>>]
             ELSE [err |-> "ok", key |-> <<IndexOf(rank_list, c.rank), IndexOf(suit_list, c.suit)>>]

\* a key (i, j) as one number, ordered as the tuples are; w exceeds every j
FlatKey(key, w) == key[1] * w + key[2]

\* list.sort(key=..., reverse=...) of list cs with flat keys flat[1..Len(cs)]
\* below top: stable, so the result is, key by key in ascending order
\* (descending with reverse), the elements of that key in their original order
RECURSIVE SortStable(_, _, _, _, _)
SortStable(cs, flat, k, top, rev) ==
    IF k >= top THEN <<>>
    ELSE LET this == IF rev THEN top - 1 - k ELSE k
             at == SelectSeq([i \in 1..Len(cs) |-> i], LAMBDA i : flat[i] = this)
         IN  [j \in 1..Len(at) |-> cs[at[j]]] \o SortStable(cs, flat, k + 1, top, rev)

\* a sort whose failing call leaves the list empty, as it is while list.sort runs
SortFailsEmpty(h, cs, ranks, suits, reverse) ==
    LET keys == [i \in 1..Len(cs) |-> SortKey(h[cs[i]], ranks, suits)] \o <<>>
        bad == {i \in 1..Len(cs) : keys[i].err # "ok"}
        w == Len(IF suits.given THEN suits.order ELSE SUITS)
        top == w * Len(IF ranks.given THEN ranks.order ELSE RANKS)
        flat == [i \in 1..Len(cs) |-> FlatKey(keys[i].key, w)] \o <<>>
    IN  IF bad # {}
        THEN Raise(keys[CHOOSE i \in bad : \A j \in bad : i <= j].err, <<>>)
        ELSE Ok(SortStable(cs, flat, 0, top, reverse), <<>>)

\* Deck.sort / Hand.sort: the keys of all cards are computed first, in list
\* order; an exception in a key leaves the list as it was
Sort(h, cs, ranks, suits, reverse) ==
    LET keys == [i \in 1..Len(cs) |-> SortKey(h[cs[i]], ranks, suits)] \o <<>>
        bad == {i \in 1..Len(cs) : keys[i].err # "ok"}
        w == Len(IF suits.given THEN suits.order ELSE SUITS)
        top == w * Len(IF ranks.given THEN ranks.order ELSE RANKS)
        flat == [i \in 1..Len(cs) |-> FlatKey(keys[i].key, w)] \o <<>>
    IN  IF bad # {}
        THEN Raise(keys[CHOOSE i \in bad : \A j \in bad : i <= j].err, cs)
        ELSE Ok(SortStable(cs, flat, 0, top, reverse), <<>>)

----------------------------------------------------------------------------------------------------------------------------------------
(* The calls a program makes on a Deck `deck`, a Hand `hand` and the        *)
(* container `prod` returned by the last multiplication                     *)

Conts == {"deck", "hand"}
AllConts == {"deck", "hand", "prod"}

\* the record of a call: op(c; n, m, flag, args) ended err and returned ret
\* (a list of Cards), hands (deal) or val (a comparison)
Call(op, c, n, m, flag, args, err, ret, hands, val) ==
    [op |-> op, c |-> c, n |-> n, m |-> m, flag |-> flag, args |-> args,
     err |-> err, ret |-> ret, hands |-> hands, val |-> val]

\* the cards a caller constructs and passes in: Card(rank, suit)
SampleCards == << <<"TWO", "SPADES">>, <<"ACE", "CLUBS">>, <<"KING", "HEARTS">> >>

\* lists of cards passed to Hand(...): indices into SampleCards
HandInputs == { <<>>, <<2, 1, 3, 1>> }

\* deck_count passed to Deck(init=True, deck_count=...)
DeckCounts == {1, MaxDeckCount}

\* lists passed to extend: indices into SampleCards, NonCard for a non-Card value
ExtendInputs == { <<1, 2>>, <<3, NonCard>> }

\* (num_players, cards_per_player) passed to deal
DealInputs == { <<2, 2>>, <<3, 1>>, <<4, 2>>, <<10, 10>> }

\* orderings passed to sort: the defaults, and README's ace_low / hearts_high
AceLow == <<"ACE">> \o SubSeq(RANKS, 1, Len(RANKS) - 1)
HeartsHigh == <<"DIAMONDS", "CLUBS", "SPADES", "HEARTS">>
SortInputs == << [ranks |-> NoOrder, suits |-> NoOrder],
                 [ranks |-> Given(AceLow), suits |-> Given(HeartsHigh)],
                 [ranks |-> Given(RANKS), suits |-> NoOrder] >>

\* the objects Card(r, s) for the Cards of xs, and xs with each Card replaced by
\* the identity its object gets on heap h
RECURSIVE Alloc(_, _, _)
Alloc(h, xs, done) ==
    IF xs = <<>> THEN [heap |-> h, ids |-> done]
    ELSE IF Head(xs) = NonCard THEN Alloc(h, Tail(xs), Append(done, NonCard))
    ELSE Alloc(Append(h, CardInit(SampleCards[Head(xs)][1], SampleCards[Head(xs)][2],
                                  FALSE, None, None)),
               Tail(xs), Append(done, Len(h) + 1))

\* the state after `deck = Deck(init=init, deck_count=k)` (object 1) and
\* `hand = Hand(xs)` (the object after the deck's) for new cards xs
Constructed(init, k, xs) ==
    LET d == DeckInit(<<>>, 0, <<>>, init, k)
        a == Alloc(d.heap, xs, <<>>)
        hd == HandInit(a.ids)
    IN  /\ d.err = "ok" /\ hd.err = "ok"
        /\ heap = a.heap
        /\ cards = [deck |-> d.cards, hand |-> hd.cards, prod |-> <<>>]
        /\ kind = [deck |-> "Deck", hand |-> "Hand", prod |-> "Deck"]
        /\ obj = [deck |-> 1, hand |-> d.nObjs + 1, prod |-> None]
        /\ nObjs = d.nObjs + 1
        /\ last = Call("Deck", "deck", k, 0, init, <<>>, d.err, <<>>, <<>>, FALSE)
        /\ before = Call("none", "deck", 0, 0, FALSE, <<>>, "ok", <<>>, <<>>, FALSE)
        /\ nOps = 0

\* Deck() or Deck(init=True, deck_count=k), and Hand(xs)
Init ==
    \E xs \in HandInputs :
        \/ Constructed(FALSE, 1, xs)
        \/ \E k \in DeckCounts : Constructed(TRUE, k, xs)

\* c.extend(xs) for a list xs of new cards and non-Card values
ExtendNew(c, xs) ==
    /\ nOps < MaxOps
    /\ LET a == Alloc(heap, xs, <<>>)
           r == Extend(cards[c], a.ids)
       IN  /\ heap' = a.heap
           /\ cards' = [cards EXCEPT ![c] = r.cards]
           /\ last' = Call("extend", c, 0, 0, FALSE, a.ids, r.err, r.ret, <<>>, FALSE)
    /\ nOps' = nOps + 1
    /\ before' = last
    /\ UNCHANGED <<kind, obj, nObjs>>

\* c.peek(from_top)
PeekAt(c, from_top) ==
    /\ nOps < MaxOps
    /\ LET r == Peek(cards[c], from_top)
       IN  last' = Call("peek", c, 0, 0, from_top, <<>>, r.err, r.ret, <<>>, FALSE)
    /\ nOps' = nOps + 1
    /\ before' = last
    /\ UNCHANGED <<heap, cards, kind, obj, nObjs>>

\* deck.draw() / hand.play()
DrawTop(c) ==
    /\ nOps < MaxOps
    /\ LET r == IF kind[c] = "Deck" THEN Draw(cards[c]) ELSE Play(cards[c])
       IN  /\ cards' = [cards EXCEPT ![c] = r.cards]
           /\ last' = Call("draw", c, 0, 0, FALSE, <<>>, r.err, r.ret, <<>>, FALSE)
    /\ nOps' = nOps + 1
    /\ before' = last
    /\ UNCHANGED <<heap, kind, obj, nObjs>>

\* the counts a program passes: small ones, and one more than there are cards
DrawCounts(c) == (0..MaxCount) \cup {Len(cards[c]) + 1}

\* deck.draw_multiple(count) / hand.play_multiple(count)
DrawMany(c, count) ==
    /\ nOps < MaxOps
    /\ LET r == IF kind[c] = "Deck" THEN DrawMultiple(cards[c], count)
                ELSE PlayMultiple(cards[c], count)
       IN  /\ cards' = [cards EXCEPT ![c] = r.cards]
           /\ last' = Call("draw_multiple", c, count, 0, FALSE, <<>>, r.err, r.ret, <<>>, FALSE)
    /\ nOps' = nOps + 1
    /\ before' = last
    /\ UNCHANGED <<heap, kind, obj, nObjs>>

\* deck.deal(num_players, cards_per_player)
DealOut(num_players, cards_per_player) ==
    /\ nOps < MaxOps
    /\ LET r == Deal(cards["deck"], num_players, cards_per_player)
       IN  /\ cards' = [cards EXCEPT !["deck"] = r.cards]
           /\ last' = Call("deal", "deck", num_players, cards_per_player, FALSE, <<>>,
                           r.err, <<>>, r.hands, FALSE)
    /\ nOps' = nOps + 1
    /\ before' = last
    /\ UNCHANGED <<heap, kind, obj, nObjs>>

\* c.sort(ranks=.., suits=.., reverse=..) with the k-th of SortInputs
SortBy(c, k, reverse) ==
    /\ nOps < MaxOps
    /\ LET r == Sort(heap, cards[c], SortInputs[k].ranks, SortInputs[k].suits, reverse)
       IN  /\ cards' = [cards EXCEPT ![c] = r.cards]
           /\ last' = Call("sort", c, k, 0, reverse, <<>>, r.err, <<>>, <<>>, FALSE)
    /\ nOps' = nOps + 1
    /\ before' = last
    /\ UNCHANGED <<heap, kind, obj, nObjs>>

\* prod = c * other (or other * c)
Multiply(c, other) ==
    /\ nOps < MaxOps
    /\ LET r == IF kind[c] = "Deck" THEN Mul(heap, nObjs, cards[c], other)
                ELSE HandMul(heap, nObjs, cards[c], other)
       IN  /\ last' = Call("mul", c, other, 0, FALSE, <<>>, r.err, <<>>, <<>>, FALSE)
           /\ IF r.err = "ok"
              THEN /\ heap' = r.heap
                   /\ cards' = [cards EXCEPT !["prod"] = r.cards]
                   /\ kind' = [kind EXCEPT !["prod"] = kind[c]]
                   /\ obj' = [obj EXCEPT !["prod"] = nObjs + 1]
                   /\ nObjs' = r.nObjs
              ELSE UNCHANGED <<heap, cards, kind, obj, nObjs>>
    /\ nOps' = nOps + 1
    /\ before' = last

\* the positions (from the bottom, 1-based) of the cards a program flips
FlipInputs(c) == {1, 2, Len(cards[c])}

\* c[i - 1].flip() for a card of container c
FlipAt(c, i) ==
    /\ nOps < MaxOps
    /\ i \in 1..Len(cards[c])
    /\ heap' = Flip(heap, cards[c][i])
    /\ last' = Call("flip", c, i, 0, FALSE, <<>>, "ok", <<cards[c][i]>>, <<>>, FALSE)
    /\ nOps' = nOps + 1
    /\ before' = last
    /\ UNCHANGED <<cards, kind, obj, nObjs>>

\* a < b and a > b for the bottom cards a, b of two containers, or b a non-Card
CompareLt(a, b) ==
    /\ nOps < MaxOps
    /\ LET r == CardLt(heap, a, b)
       IN  last' = Call("lt", "deck", a, b, FALSE, <<>>, r.err, <<>>, <<>>, r.val)
    /\ nOps' = nOps + 1
    /\ before' = last
    /\ UNCHANGED <<heap, cards, kind, obj, nObjs>>

CompareGt(a, b) ==
    /\ nOps < MaxOps
    /\ LET r == CardGt(heap, a, b)
       IN  last' = Call("gt", "deck", a, b, FALSE, <<>>, r.err, <<>>, <<>>, r.val)
    /\ nOps' = nOps + 1
    /\ before' = last
    /\ UNCHANGED <<heap, cards, kind, obj, nObjs>>

----------------------------------------------------------------------------
(* Specifications: the calls that move cards onto and off a container *)

Next ==
    \/ \E c \in Conts, t \in BOOLEAN : PeekAt(c, t)
    \/ \E c \in Conts : DrawTop(c)
    \/ \E c \in Conts : \E n \in DrawCounts(c) : DrawMany(c, n)
    \/ \E d \in DealInputs : DealOut(d[1], d[2])
    \/ \E c \in Conts, xs \in ExtendInputs : ExtendNew(c, xs)

Spec == Init /\ [][Next]_vars

(* sorting *)
SortNext ==
    \E c \in Conts, k \in 1..Len(SortInputs), rev \in BOOLEAN : SortBy(c, k, rev)

SortSpec == Init /\ [][SortNext]_vars

(* multiplication and flips *)
MulNext ==
    \/ \E c \in Conts, n \in (-1)..MaxMul : Multiply(c, n)
    \/ \E c \in AllConts : \E i \in FlipInputs(c) : FlipAt(c, i)

MulSpec == Init /\ [][MulNext]_vars

(* comparisons of two cards: any card (object 1) and a card of hearts (object 2) *)
CardInitState ==
    /\ \E r1 \in Range(Rank), s1 \in Range(Suit), f1 \in BOOLEAN, r2 \in Range(Rank) :
          heap = <<CardInit(r1, s1, f1, None, None), CardInit(r2, "HEARTS", FALSE, None, None)>>
    /\ cards = [c \in AllConts |-> <<>>]
    /\ kind = [deck |-> "Deck", hand |-> "Hand", prod |-> "Deck"]
    /\ obj = [deck |-> None, hand |-> None, prod |-> None]
    /\ nObjs = 0
    /\ last = Call("Card", "deck", 0, 0, FALSE, <<>>, "ok", <<>>, <<>>, FALSE)
    /\ before = Call("none", "deck", 0, 0, FALSE, <<>>, "ok", <<>>, <<>>, FALSE)
    /\ nOps = 0

\* the right operands of a comparison with object a: the other card, a non-Card
Others(a) == (DOMAIN heap \ {a}) \cup {NonCard}

CardNext ==
    \/ \E a \in DOMAIN heap : \E b \in Others(a) : CompareLt(a, b)
    \/ \E a \in DOMAIN heap : \E b \in Others(a) : CompareGt(a, b)

CardSpec == CardInitState /\ [][CardNext]_vars

----------------------------------------------------------------------------
(* Properties *)

\* the probe Card(r, s) a caller passes to count and `in`
Probe(r, s) == CardInit(r, s, FALSE, None, None)

\* C1: a deck built by Deck(init=True) (deck_count = 1) holds exactly 52 cards,
\* and count(Card(r, s)) = 1 for each of the 13 x 4 pairs of a rank and a suit.
C1_StandardDeckHasEachCardOnce ==
    (last.op = "Deck" /\ last.flag /\ last.n = 1) =>
        /\ Len(cards["deck"]) = 52
        /\ Cardinality(Range(Rank) \X Range(Suit)) = 52
        /\ \A r \in Range(Rank), s \in Range(Suit) :
              Count(heap, cards["deck"], Probe(r, s)) = 1

C1_Witness ==
    /\ last.op = "Deck" /\ last.flag /\ last.n = 1 /\ last.err = "ok"
    /\ Count(heap, cards["deck"], Probe("ACE", "SPADES")) = 1

\* the call that has just been made is op on container c (read in a step)
Did(op, c) == last'.op = op /\ last'.c = c

\* C2: on a non-empty container, draw() succeeds and returns the card a
\* peek() just before it returned (the top card); the length drops by exactly 1,
\* only the top card goes, the rest keep their order, and a drawn card whose
\* (rank, suit) was unique is no longer contained.
C2_DrawReturnsPeekedTop ==
    [][\A c \in Conts :
        (Did("draw", c) /\ Len(cards[c]) > 0) =>
            LET old == cards[c]
                top == old[Len(old)]
            IN  /\ last'.err = "ok"
                /\ last'.ret = Peek(old, TRUE).ret
                /\ (last.op = "peek" /\ last.c = c /\ last.flag) =>
                      (last.err = "ok" /\ last'.ret = last.ret)
                /\ Len(cards'[c]) = Len(old) - 1
                /\ cards'[c] = SubSeq(old, 1, Len(old) - 1)
                /\ last'.ret = <<top>>
                /\ Count(heap, old, heap[top]) = 1 => ~Contains(heap', cards'[c], heap[top])
      ]_vars

C2_Witness ==
    /\ before.op = "peek" /\ before.flag /\ before.err = "ok"
    /\ last.op = "draw" /\ last.c = before.c /\ last.err = "ok"
    /\ last.ret = before.ret
    /\ ~Contains(heap, cards[last.c], heap[last.ret[1]])

\* C3: deal(P, C) with P >= 1, C >= 0 and P * C <= len succeeds; player i's j-th
\* card (0-based) is the card that was (j * P + i)-th from the top, exactly
\* P * C cards leave the top and the rest keep their order (4 x 2 from a fresh
\* 52-card deck: player 0 gets the top and the 5th from the top, 44 are left).
C3_DealRoundRobin ==
    [][\A P \in 1..10, C \in 0..10 :
        (Did("deal", "deck") /\ last'.n = P /\ last'.m = C /\ P * C <= Len(cards["deck"])) =>
            LET old == cards["deck"]
            IN  /\ last'.err = "ok"
                /\ Len(last'.hands) = P
                /\ \A i \in 0..(P - 1) :
                      /\ Len(last'.hands[i + 1]) = C
                      /\ \A j \in 0..(C - 1) :
                            last'.hands[i + 1][j + 1] = old[Len(old) - (j * P + i)]
                /\ cards'["deck"] = SubSeq(old, 1, Len(old) - P * C)
                /\ (P = 4 /\ C = 2 /\ Len(old) = 52) =>
                      /\ last'.hands[1] = <<old[52], old[48]>>
                      /\ Len(cards'["deck"]) = 44
      ]_vars

C3_Witness ==
    /\ last.op = "deal" /\ last.err = "ok" /\ last.n = 4 /\ last.m = 2
    /\ Len(cards["deck"]) = 44
    /\ Len(last.hands) = 4 /\ Len(last.hands[1]) = 2

\* C4: a call of extend, deal or draw_multiple that fails leaves every
\* container's card sequence exactly as it was (deal(10, 10) on a fresh
\* 52-card deck fails with ValueError, the deck keeping its 52 cards in order).
C4_FailedBulkCallChangesNothing ==
    [][/\ (last'.op \in {"extend", "deal", "draw_multiple"} /\ last'.err # "ok") =>
              cards' = cards
       /\ (Did("deal", "deck") /\ last'.n = 10 /\ last'.m = 10 /\ Len(cards["deck"]) = 52) =>
              (last'.err = "ValueError" /\ cards' = cards /\ Len(cards'["deck"]) = 52)
       /\ (last'.op = "extend" /\ ~AllCards(last'.args)) => last'.err = "TypeError"
      ]_vars

C4_Witness ==
    /\ before.op = "extend" /\ before.err = "TypeError" /\ Len(before.args) = 2
    /\ last.op = "deal" /\ last.err = "ValueError" /\ last.n = 10 /\ last.m = 10
    /\ Len(cards["deck"]) = 52

\* C5: draw_multiple(n) with 0 <= n <= len returns exactly n cards, the k-th of
\* them the card that was k-th from the top, and removes exactly those; with
\* n > len it fails with ValueError and removes nothing.
C5_DrawMultipleTopDown ==
    [][Did("draw_multiple", "deck") =>
          LET old == cards["deck"]
              n == last'.n
          IN  IF n <= Len(old)
              THEN /\ last'.err = "ok"
                   /\ Len(last'.ret) = n
                   /\ \A k \in 1..n : last'.ret[k] = old[Len(old) - k + 1]
                   /\ cards'["deck"] = SubSeq(old, 1, Len(old) - n)
              ELSE /\ last'.err = "ValueError"
                   /\ last'.ret = <<>>
                   /\ cards'["deck"] = old
      ]_vars

C5_Witness ==
    /\ before.op = "draw_multiple" /\ before.c = "deck" /\ before.err = "ok"
    /\ Len(before.ret) = 2
    /\ last.op = "draw_multiple" /\ last.c = "deck" /\ last.err = "ValueError"
    /\ last.n = Len(cards["deck"]) + 1 /\ Len(cards["deck"]) > 0

\* C6: Hand.play_multiple(n) does what Deck.draw_multiple(n) does on the same
\* cards: the same outcome, the same list returned, the same cards left.
C6_PlayMultipleAsDrawMultiple ==
    [][Did("draw_multiple", "hand") =>
          LET r == DrawMultiple(cards["hand"], last'.n)
          IN  /\ last'.err = r.err
              /\ last'.ret = r.ret
              /\ cards'["hand"] = r.cards
      ]_vars

\* the key sort uses by default: places in the canonical rank and suit orders
DefaultKey(c) == <<IndexOf(RANKS, c.rank), IndexOf(SUITS, c.suit)>>

\* the order of keys: by rank place, then by suit place
KeyLess(k1, k2) == k1[1] < k2[1] \/ (k1[1] = k2[1] /\ k1[2] < k2[2])

\* C7: sort() with the default orderings and reverse=False on a non-empty Deck
\* or Hand succeeds and leaves the same cards in non-decreasing order of
\* (place of rank in TWO..ACE, place of suit in SPADES, HEARTS, DIAMONDS, CLUBS).
C7_DefaultSortOrders ==
    [][\A c \in Conts :
        (Did("sort", c) /\ last'.n = 1 /\ ~last'.flag /\ Len(cards[c]) > 0) =>
            /\ last'.err = "ok"
            /\ Len(cards'[c]) = Len(cards[c])
            /\ Range(cards'[c]) = Range(cards[c])
            /\ \A i \in 1..(Len(cards'[c]) - 1) :
                  ~KeyLess(DefaultKey(heap[cards'[c][i + 1]]), DefaultKey(heap[cards'[c][i]]))
      ]_vars

\* C8: a < b is true iff a's rank comes strictly before b's in TWO..ACE, and
\* a > b iff strictly after, whatever the suits and face-up flags.
C8_ComparisonByRank ==
    (last.op \in {"lt", "gt"} /\ IsCard(last.m)) =>
        /\ last.err = "ok"
        /\ last.op = "lt" =>
              (last.val <=> IndexOf(RANKS, heap[last.n].rank) < IndexOf(RANKS, heap[last.m].rank))
        /\ last.op = "gt" =>
              (last.val <=> IndexOf(RANKS, heap[last.n].rank) > IndexOf(RANKS, heap[last.m].rank))

\* C9: for n >= 1 the cards of c * n are independent of c's: flipping a card
\* of the product leaves every card of c as it was.
C9_ProductIndependent ==
    [][(last.op = "mul" /\ last.err = "ok" /\ last.n >= 1 /\ Did("flip", "prod")) =>
          \A i \in 1..Len(cards[last.c]) :
              heap'[cards[last.c][i]] = heap[cards[last.c][i]]
      ]_vars

\* C10: Deck(init=True, deck_count=N) with N >= 2 holds 52 * N cards,
\* count(card) = N for each valid card, and flipping one card of the deck
\* changes the face-up flag of no other card of the deck.
C10_Shoe ==
    [][/\ (last.op = "Deck" /\ last.flag /\ last.n >= 2) =>
              /\ Len(cards["deck"]) = 52 * last.n
              /\ \A r \in Range(Rank), s \in Range(Suit) :
                    Count(heap, cards["deck"], Probe(r, s)) = last.n
       /\ Did("flip", "deck") =>
              \A j \in 1..Len(cards["deck"]) :
                  j # last'.n =>
                      heap'[cards["deck"][j]].face_up = heap[cards["deck"][j]].face_up
      ]_vars

C10_Witness ==
    /\ last.op = "flip" /\ last.c = "deck"
    /\ Len(cards["deck"]) = 52 * MaxDeckCount
    /\ heap[last.ret[1]].face_up
    /\ \E j \in 1..Len(cards["deck"]) :
          /\ cards["deck"][j] # last.ret[1]
          /\ CardEq(heap[cards["deck"][j]], heap[last.ret[1]])
          /\ ~heap[cards["deck"][j]].face_up

----------------------------------------------------------------------------
(* Cutting *)

\* Deck.reverse / Hand.reverse: the list reversed
Reversed(cs) == [i \in 1..Len(cs) |-> cs[Len(cs) + 1 - i]]

\* a cut that puts the head back reversed
CutHeadReversed(cs, index) ==
    IF ~(0 <= index /\ index <= Len(cs)) THEN Raise("ValueError", cs)
    ELSE Ok(SubSeq(cs, index + 1, Len(cs)) \o Reversed(SubSeq(cs, 1, index)), <<>>)

\* Deck.cut(index) / Hand.cut(index): cards[index:] + cards[:index]
Cut(cs, index) ==
    IF ~(0 <= index /\ index <= Len(cs)) THEN Raise("ValueError", cs)
    ELSE Ok(SubSeq(cs, index + 1, Len(cs)) \o SubSeq(cs, 1, index), <<>>)

\* a default cut that rounds the middle up
CutDefaultCeil(cs) == Cut(cs, (Len(cs) + 1) \div 2)

\* Deck.cut() / Hand.cut(): index defaults to len // 2
CutDefault(cs) == Cut(cs, Len(cs) \div 2)

\* the indices a program passes to cut
CutInputs(c) == {-1, 0, 1, Len(cards[c]) - 1, Len(cards[c]), Len(cards[c]) + 1}

\* c.cut(index), or c.cut() when no index is given
CutAt(c, given, index) ==
    /\ nOps < MaxOps
    /\ LET i == IF given THEN index ELSE Len(cards[c]) \div 2
           r == IF given THEN Cut(cards[c], index) ELSE CutDefault(cards[c])
       IN  /\ cards' = [cards EXCEPT ![c] = r.cards]
           /\ last' = Call("cut", c, i, 0, given, <<>>, r.err, <<>>, <<>>, FALSE)
    /\ nOps' = nOps + 1
    /\ before' = last
    /\ UNCHANGED <<heap, kind, obj, nObjs>>

CutNext ==
    \/ \E c \in Conts : \E i \in CutInputs(c) : CutAt(c, TRUE, i)
    \/ \E c \in Conts : CutAt(c, FALSE, 0)

CutSpec == Init /\ [][CutNext]_vars

\* C11: for 0 <= i <= len, cut(i) succeeds and cut(len - i) on its result
\* succeeds and gives back the card order there was before cut(i).
C11_CutRoundTrip ==
    [][\A c \in Conts :
        (Did("cut", c) /\ 0 <= last'.n /\ last'.n <= Len(cards[c])) =>
            LET back == Cut(cards'[c], Len(cards[c]) - last'.n)
            IN  /\ last'.err = "ok"
                /\ Len(cards'[c]) = Len(cards[c])
                /\ back.err = "ok"
                /\ back.cards = cards[c]
      ]_vars

\* cut(1) then cut(len - 1) on a fresh 52-card deck: the construction order
C11_Witness ==
    /\ before.op = "cut" /\ before.c = "deck" /\ before.err = "ok" /\ before.n = 1
    /\ last.op = "cut" /\ last.c = "deck" /\ last.err = "ok" /\ last.n = 51
    /\ cards["deck"] = [k \in 1..52 |-> k]

----------------------------------------------------------------------------
(* Card attributes: construction from shorthand, the setters *)

\* the values of the enums (a suit's symbol is written as its code point)
RankValue ==
    [TWO |-> "2", THREE |-> "3", FOUR |-> "4", FIVE |-> "5", SIX |-> "6", SEVEN |-> "7",
     EIGHT |-> "8", NINE |-> "9", TEN |-> "10", JACK |-> "J", QUEEN |-> "Q", KING |-> "K",
     ACE |-> "A"]
SuitValue ==
    [HEARTS |-> "U+2665", DIAMONDS |-> "U+2666", CLUBS |-> "U+2663", SPADES |-> "U+2660"]
ColorValue == [RED |-> "red", BLACK |-> "black"]

\* s.name[0]
SuitInitial == [HEARTS |-> "H", DIAMONDS |-> "D", CLUBS |-> "C", SPADES |-> "S"]

\* a value of a Python type passed by a caller
Val(t, v) == [t |-> t, v |-> v]

\* next((r for r in Rank if r.value == v), None)
RankFromStr(v) ==
    LET hits == SelectSeq(Rank, LAMBDA r : RankValue[r] = v)
    IN  IF hits = <<>> THEN "None" ELSE Head(hits)

\* next((s for s in Suit if s.value == v or s.name[0] == v), None)
SuitFromStr(v) ==
    LET hits == SelectSeq(Suit, LAMBDA x : SuitValue[x] = v \/ SuitInitial[x] = v)
    IN  IF hits = <<>> THEN "None" ELSE Head(hits)

\* Card(_rank, _suit, _face_up) for values of any type
CardNew(rv, sv, f) ==
    LET r == IF rv.t = "str" THEN RankFromStr(rv.v) ELSE rv.v
        x == IF sv.t = "str" THEN SuitFromStr(sv.v) ELSE sv.v
    IN  IF rv.t = "str" /\ r = "None" THEN [err |-> "ValueError", card |-> <<>>]
        ELSE IF rv.t \notin {"str", "Rank"} THEN [err |-> "TypeError", card |-> <<>>]
        ELSE IF sv.t = "str" /\ x = "None" THEN [err |-> "ValueError", card |-> <<>>]
        ELSE IF sv.t \notin {"str", "Suit"} THEN [err |-> "TypeError", card |-> <<>>]
        ELSE [err |-> "ok", card |-> CardInit(r, x, f, None, None)]

\* card.rank = value
SetRank(card, value) ==
    IF value.t # "Rank" THEN [err |-> "TypeError", card |-> card]
    ELSE [err |-> "ok", card |-> [card EXCEPT !.rank = value.v]]

\* a suit setter that leaves the color as it was
SetSuitKeepColor(card, value) ==
    IF value.t = "str"
    THEN IF SuitFromStr(value.v) = "None" THEN [err |-> "ValueError", card |-> card]
         ELSE [err |-> "ok", card |-> [card EXCEPT !.suit = SuitFromStr(value.v)]]
    ELSE IF value.t = "Suit" THEN [err |-> "ok", card |-> [card EXCEPT !.suit = value.v]]
    ELSE [err |-> "TypeError", card |-> card]

\* card.suit = value
SetSuit(card, value) ==
    IF value.t = "str"
    THEN LET x == SuitFromStr(value.v)
         IN  IF x = "None" THEN [err |-> "ValueError", card |-> card]
             ELSE [err |-> "ok", card |-> [card EXCEPT !.suit = x, !.color = ColorOf(x)]]
    ELSE IF value.t = "Suit"
    THEN [err |-> "ok", card |-> [card EXCEPT !.suit = value.v, !.color = ColorOf(value.v)]]
    ELSE [err |-> "TypeError", card |-> card]

\* card.color = value
SetColor(card, value) == [err |-> "AttributeError", card |-> card]

\* the suits, ranks and colors a program passes
SuitInputs ==
    {Val("Suit", x) : x \in Range(Suit)}
        \cup {Val("str", SuitInitial[x]) : x \in Range(Suit)}
        \cup {Val("str", SuitValue[x]) : x \in Range(Suit)}
        \cup {Val("str", "X"), Val("int", "3")}
RankInputs == {Val("Rank", "TWO"), Val("Rank", "ACE"), Val("str", "K"), Val("int", "3")}
ColorInputs == {Val("Color", "RED"), Val("Color", "BLACK")}

\* one card, object 1, made by Card(rv, sv); no containers
OneCard ==
    /\ \E rv \in RankInputs, sv \in SuitInputs :
          /\ CardNew(rv, sv, FALSE).err = "ok"
          /\ heap = <<CardNew(rv, sv, FALSE).card>>
    /\ cards = [c \in AllConts |-> <<>>]
    /\ kind = [deck |-> "Deck", hand |-> "Hand", prod |-> "Deck"]
    /\ obj = [deck |-> None, hand |-> None, prod |-> None]
    /\ nObjs = 0
    /\ last = Call("Card", "deck", 0, 0, FALSE, <<>>, "ok", <<>>, <<>>, FALSE)
    /\ before = Call("none", "deck", 0, 0, FALSE, <<>>, "ok", <<>>, <<>>, FALSE)
    /\ nOps = 0

\* heap[id].<attr> = value for attr one of rank, suit, color
SetAttr(id, attr, value) ==
    /\ nOps < MaxOps
    /\ LET r == CASE attr = "rank" -> SetRank(heap[id], value)
                  [] attr = "suit" -> SetSuit(heap[id], value)
                  [] attr = "color" -> SetColor(heap[id], value)
       IN  /\ heap' = [heap EXCEPT ![id] = r.card]
           /\ last' = Call(attr, "deck", id, 0, FALSE, <<value>>, r.err, <<>>, <<>>, FALSE)
    /\ nOps' = nOps + 1
    /\ before' = last
    /\ UNCHANGED <<cards, kind, obj, nObjs>>

\* heap[id].flip()
FlipCard(id) ==
    /\ nOps < MaxOps
    /\ heap' = Flip(heap, id)
    /\ last' = Call("flip", "deck", id, 0, FALSE, <<>>, "ok", <<>>, <<>>, FALSE)
    /\ nOps' = nOps + 1
    /\ before' = last
    /\ UNCHANGED <<cards, kind, obj, nObjs>>

SetNext ==
    \/ \E v \in RankInputs : SetAttr(1, "rank", v)
    \/ \E v \in SuitInputs : SetAttr(1, "suit", v)
    \/ \E v \in ColorInputs : SetAttr(1, "color", v)
    \/ FlipCard(1)

SetSpec == OneCard /\ [][SetNext]_vars

\* the color a card of suit x has by the rule: red for hearts and diamonds,
\* black for spades and clubs
ColorBySuit(card) ==
    /\ card.color = "RED" <=> card.suit \in {"HEARTS", "DIAMONDS"}
    /\ card.color = "BLACK" <=> card.suit \in {"SPADES", "CLUBS"}
    /\ card.color \in {"RED", "BLACK"}

\* C12: in every state of a Card, after construction, rank sets, suit sets by
\* enum or shorthand, flips and attempted color sets, the color is RED iff the
\* suit is HEARTS or DIAMONDS and BLACK iff it is SPADES or CLUBS; an
\* assignment to color fails (AttributeError) and changes nothing.
C12_ColorFollowsSuit ==
    /\ [](\A id \in DOMAIN heap : ColorBySuit(heap[id]))
    /\ [][last'.op = "color" => (last'.err = "AttributeError" /\ heap' = heap)]_vars
    /\ [][(last'.op = "suit" /\ last'.err # "ok") => heap' = heap]_vars

\* a black card turned red by a suit set from shorthand, then a failed color set
C12_Witness ==
    /\ before.op = "suit" /\ before.err = "ok" /\ before.args[1].t = "str"
    /\ last.op = "color" /\ last.err = "AttributeError" /\ last.args[1].v = "BLACK"
    /\ heap[1].suit = "DIAMONDS" /\ heap[1].color = "RED"

----------------------------------------------------------------------------
(* Equality of cards *)

\* an equality that also compares the face-up flags
EqWithFace(h, a, b) ==
    IF ~IsCard(b) THEN [err |-> "TypeError returned", val |-> TRUE]
    ELSE [err |-> "ok", val |-> CardEq(h[a], h[b]) /\ h[a].face_up = h[b].face_up]

\* a == b for the Card object a: Card.__eq__(a, b). For b not a Card the method
\* returns (does not raise) a TypeError object, which is truthy
Eq(h, a, b) ==
    IF ~IsCard(b) THEN [err |-> "TypeError returned", val |-> TRUE]
    ELSE [err |-> "ok", val |-> CardEq(h[a], h[b])]

\* the ranks of the two cards compared
EqRanks == {"TWO", "ACE"}

\* deck = Deck(), hand = Hand(), and two cards in no container: object 1 made
\* with or without _deck=deck, object 2 with or without _hand=hand
TwoCards ==
    /\ \E r1 \in EqRanks, r2 \in EqRanks, s1 \in Range(Suit), s2 \in Range(Suit),
          f1 \in BOOLEAN, d1 \in {None, 1}, h2 \in {None, 2} :
          heap = <<CardInit(r1, s1, f1, d1, None), CardInit(r2, s2, FALSE, None, h2)>>
    /\ cards = [c \in AllConts |-> <<>>]
    /\ kind = [deck |-> "Deck", hand |-> "Hand", prod |-> "Deck"]
    /\ obj = [deck |-> 1, hand |-> 2, prod |-> None]
    /\ nObjs = 2
    /\ last = Call("Card", "deck", 0, 0, FALSE, <<>>, "ok", <<>>, <<>>, FALSE)
    /\ before = Call("none", "deck", 0, 0, FALSE, <<>>, "ok", <<>>, <<>>, FALSE)
    /\ nOps = 0

\* a == b
CompareEq(a, b) ==
    /\ nOps < MaxOps
    /\ LET r == Eq(heap, a, b)
       IN  last' = Call("eq", "deck", a, b, FALSE, <<>>, r.err, <<>>, <<>>, r.val)
    /\ nOps' = nOps + 1
    /\ before' = last
    /\ UNCHANGED <<heap, cards, kind, obj, nObjs>>

EqNext == \E a \in DOMAIN heap : \E b \in Others(a) : CompareEq(a, b)

EqSpec == TwoCards /\ [][EqNext]_vars

\* C13: a == b for two cards is true iff they have the same rank and the same
\* suit, whatever their face-up flags and deck / hand references.
C13_EqualByRankAndSuit ==
    (last.op = "eq" /\ IsCard(last.m)) =>
        /\ last.err = "ok"
        /\ last.val <=> (/\ heap[last.n].rank = heap[last.m].rank
                         /\ heap[last.n].suit = heap[last.m].suit)

\* equal cards that differ in face-up flag and in both references
C13_Witness ==
    /\ last.op = "eq" /\ IsCard(last.m) /\ last.val
    /\ heap[1].face_up # heap[2].face_up
    /\ heap[1].deck # heap[2].deck /\ heap[1].hand # heap[2].hand
    /\ before.op = "eq" /\ before.m = NonCard

----------------------------------------------------------------------------
(* extend with a container or an iterator as its argument, step by step     *)
(* list.extend(x) for x not a list takes iter(x) and appends what it yields *)
(* until it is exhausted; iter(container) is an iterator over the           *)
(* container's own list, which yields while its position is short of the    *)
(* list's current length. list.extend first takes the length hint of its    *)
(* argument; the list is followed for MaxOverrun rounds beyond that hint.    *)

\* the container whose object is the argument of the call in progress
Source == CHOOSE x \in Conts : obj[x] = last.args[1]

\* an extend is in progress: last.n is the position of the iterator it reads,
\* last.m the length hint taken when list.extend started, and last.flag says
\* that the iterator is exhausted
Running == last.op = "extend" /\ last.err = "running"

\* c.extend(x), or c.extend(iter(x)) when viaIter: the check
\* all(isinstance(card, Card) for card in cards) runs through the argument, which
\* exhausts an iterator and leaves a container as it is; then list.extend starts
ExtendWith(c, x, viaIter) ==
    /\ nOps < MaxOps
    /\ ~Running
    /\ last' = Call("extend", c, IF viaIter THEN Len(cards[x]) ELSE 0,
                    IF viaIter THEN 0 ELSE Len(cards[x]), viaIter,
                    <<obj[x]>>, "running", <<>>, <<>>, FALSE)
    /\ nOps' = nOps + 1
    /\ before' = last
    /\ UNCHANGED <<heap, cards, kind, obj, nObjs>>

\* one round of list.extend's loop: the iterator yields the next item of its
\* list as it is now, and the item is appended. A round moves the position and
\* the end of the list it appends to by one each; past MaxOverrun rounds beyond
\* the hint the model stops recording the cards added and the position, which
\* keeps the distance between the two, and records the round in last.val
ExtendStep ==
    /\ Running
    /\ ~last.flag
    /\ last.n < Len(cards[Source])
    /\ IF last.n < last.m + MaxOverrun
       THEN /\ cards' = [cards EXCEPT ![last.c] =
                            Append(cards[last.c], cards[Source][last.n + 1])]
            /\ last' = [last EXCEPT !.n = last.n + 1]
       ELSE /\ cards' = cards
            /\ last' = [last EXCEPT !.val = ~last.val]
    /\ UNCHANGED <<heap, kind, obj, nObjs, before, nOps>>

\* the iterator is exhausted: list.extend and the call return
ExtendEnd ==
    /\ Running
    /\ last.flag \/ last.n >= Len(cards[Source])
    /\ last' = [last EXCEPT !.err = "ok", !.flag = TRUE]
    /\ UNCHANGED <<heap, cards, kind, obj, nObjs, before, nOps>>

ExtendNext ==
    \/ \E c \in Conts, x \in Conts, viaIter \in BOOLEAN : ExtendWith(c, x, viaIter)
    \/ ExtendStep
    \/ ExtendEnd

\* a call that has started goes on running
ExtendSpec == Init /\ [][ExtendNext]_vars /\ WF_vars(ExtendStep) /\ WF_vars(ExtendEnd)

\* C14: every container operation terminates; in particular c.extend(x)
\* returns when x is c itself or an iterator over c's own cards.
C14_ExtendTerminates == Running ~> ~Running

----------------------------------------------------------------------------
(* Peeking at several cards *)

Min(a, b) == IF a < b THEN a ELSE b
Max(a, b) == IF a > b THEN a ELSE b

\* a bound of a Python slice of cs: a negative one counts from the end, and
\* either is clamped to 0..len
SliceBound(cs, i) == IF i < 0 THEN Max(i + Len(cs), 0) ELSE Min(i, Len(cs))

\* cs[start:] and cs[:stop]
SliceFrom(cs, start) == SubSeq(cs, SliceBound(cs, start) + 1, Len(cs))
SliceTo(cs, stop) == SubSeq(cs, 1, SliceBound(cs, stop))

\* Deck.peek_multiple(count, from_top) / Hand.peek_multiple(count, from_top)
PeekMultiple(cs, count, from_top) ==
    IF count > Len(cs) THEN Raise("ValueError", cs)
    ELSE Ok(cs, IF from_top THEN SliceFrom(cs, -count) ELSE SliceTo(cs, count))

\* the counts a program passes to peek_multiple
PeekCounts(c) == {-1, 0, 1, MaxCount, Len(cards[c]), Len(cards[c]) + 1}

\* c.peek_multiple(count, from_top)
PeekMany(c, count, from_top) ==
    /\ nOps < MaxOps
    /\ LET r == PeekMultiple(cards[c], count, from_top)
       IN  /\ cards' = [cards EXCEPT ![c] = r.cards]
           /\ last' = Call("peek_multiple", c, count, 0, from_top, <<>>, r.err, r.ret,
                           <<>>, FALSE)
    /\ nOps' = nOps + 1
    /\ before' = last
    /\ UNCHANGED <<heap, kind, obj, nObjs>>

PeekNext ==
    \E c \in Conts : \E count \in PeekCounts(c), from_top \in BOOLEAN :
        PeekMany(c, count, from_top)

PeekSpec == Init /\ [][PeekNext]_vars

\* C15: peek_multiple(count, from_top) with 0 <= count <= len returns exactly
\* the count cards nearest the chosen end, never more than count, and leaves
\* the container as it was; with count > len it fails with ValueError.
C15_PeekMultipleReturnsCount ==
    [][\A c \in Conts :
        (Did("peek_multiple", c) /\ last'.n >= 0) =>
            LET cs == cards[c]
                count == last'.n
            IN  IF count <= Len(cs)
                THEN /\ last'.err = "ok"
                     /\ Len(last'.ret) <= count
                     /\ last'.ret = IF last'.flag
                                    THEN SubSeq(cs, Len(cs) - count + 1, Len(cs))
                                    ELSE SubSeq(cs, 1, count)
                     /\ cards'[c] = cs
                ELSE last'.err = "ValueError" /\ cards'[c] = cs
      ]_vars

----------------------------------------------------------------------------
(* New containers from old: copy and +; append and clear.                    *)
(* `prod` also names the container returned by the last copy() or +.         *)

\* list.copy(): a new list of the same items
ListCopy(cs) == [i \in 1..Len(cs) |-> cs[i]]

\* the outcome of building a Hand, in the form DeckInit gives for a Deck
HandNew(h, nO, cs) ==
    LET r == HandInit(cs)
    IN  [err |-> r.err, heap |-> h, cards |-> r.cards, nObjs |-> nO + 1]

\* a copy that copies the cards as well
CopyDeep(h, nO, cs) ==
    [err |-> "ok", heap |-> h \o DeepCopies(h, cs, 1, nO + 1),
     cards |-> NewIds(h, Len(cs)), nObjs |-> nO + 1 + Len(cs)]

\* Deck.copy: Deck(self.cards.copy())
Copy(h, nO, cs) == DeckInit(h, nO, ListCopy(cs), FALSE, 1)

\* Hand.copy: Hand(self.cards.copy())
HandCopy(h, nO, cs) == HandNew(h, nO, ListCopy(cs))

\* a sum that puts the other operand's cards first
AddOtherFirst(h, nO, cs, other) ==
    IF ~AllCards(other) THEN [err |-> "TypeError", heap |-> h, cards |-> <<>>, nObjs |-> nO]
    ELSE DeckInit(h, nO, other \o cs, FALSE, 1)

\* Deck.__add__ with other already made a list: Deck(self.cards + other)
Add(h, nO, cs, other) ==
    IF ~AllCards(other) THEN [err |-> "TypeError", heap |-> h, cards |-> <<>>, nObjs |-> nO]
    ELSE DeckInit(h, nO, cs \o other, FALSE, 1)

\* Hand.__add__: Hand(self.cards + other)
HandAdd(h, nO, cs, other) ==
    IF ~AllCards(other) THEN [err |-> "TypeError", heap |-> h, cards |-> <<>>, nObjs |-> nO]
    ELSE HandNew(h, nO, cs \o other)

\* an append that puts the card under the others
AppendBottom(cs, card) ==
    IF ~IsCard(card) THEN Raise("TypeError", cs) ELSE Ok(<<card>> \o cs, <<>>)

\* Deck.append / Hand.append
AppendCard(cs, card) ==
    IF ~IsCard(card) THEN Raise("TypeError", cs) ELSE Ok(Append(cs, card), <<>>)

\* Deck.clear() with its default arguments (init=False) / Hand.clear()
Clear(cs) == Ok(<<>>, <<>>)

\* the new container is bound to prod
Bind(c, r) ==
    IF r.err = "ok"
    THEN /\ heap' = r.heap
         /\ cards' = [cards EXCEPT !["prod"] = r.cards]
         /\ kind' = [kind EXCEPT !["prod"] = kind[c]]
         /\ obj' = [obj EXCEPT !["prod"] = nObjs + 1]
         /\ nObjs' = r.nObjs
    ELSE UNCHANGED <<heap, cards, kind, obj, nObjs>>

\* prod = c.copy()
CopyOf(c) ==
    /\ nOps < MaxOps
    /\ LET r == IF kind[c] = "Deck" THEN Copy(heap, nObjs, cards[c])
                ELSE HandCopy(heap, nObjs, cards[c])
       IN  /\ last' = Call("copy", c, 0, 0, FALSE, <<>>, r.err, <<>>, <<>>, FALSE)
           /\ Bind(c, r)
    /\ nOps' = nOps + 1
    /\ before' = last

\* prod = c + x for a container x: list(x) is the list of x's cards
Plus(c, x) ==
    /\ nOps < MaxOps
    /\ LET other == ListCopy(cards[x])
           r == IF kind[c] = "Deck" THEN Add(heap, nObjs, cards[c], other)
                ELSE HandAdd(heap, nObjs, cards[c], other)
       IN  /\ last' = Call("add", c, 0, 0, FALSE, other, r.err, <<>>, <<>>, FALSE)
           /\ Bind(c, r)
    /\ nOps' = nOps + 1
    /\ before' = last

\* prod = c + xs for a list xs of new cards and non-Card values
PlusList(c, xs) ==
    /\ nOps < MaxOps
    /\ LET a == Alloc(heap, xs, <<>>)
           r == IF kind[c] = "Deck" THEN Add(a.heap, nObjs, cards[c], a.ids)
                ELSE HandAdd(a.heap, nObjs, cards[c], a.ids)
       IN  /\ last' = Call("add", c, 0, 0, TRUE, a.ids, r.err, <<>>, <<>>, FALSE)
           /\ IF r.err = "ok" THEN Bind(c, r)
              ELSE heap' = a.heap /\ UNCHANGED <<cards, kind, obj, nObjs>>
    /\ nOps' = nOps + 1
    /\ before' = last

\* c.append(x) for a new card or a non-Card value x
AppendNew(c, x) ==
    /\ nOps < MaxOps
    /\ LET a == Alloc(heap, <<x>>, <<>>)
           r == AppendCard(cards[c], a.ids[1])
       IN  /\ heap' = a.heap
           /\ cards' = [cards EXCEPT ![c] = r.cards]
           /\ last' = Call("append", c, 0, 0, FALSE, a.ids, r.err, <<>>, <<>>, FALSE)
    /\ nOps' = nOps + 1
    /\ before' = last
    /\ UNCHANGED <<kind, obj, nObjs>>

\* c.clear()
ClearAll(c) ==
    /\ nOps < MaxOps
    /\ LET r == Clear(cards[c])
       IN  /\ cards' = [cards EXCEPT ![c] = r.cards]
           /\ last' = Call("clear", c, 0, 0, FALSE, <<>>, r.err, <<>>, <<>>, FALSE)
    /\ nOps' = nOps + 1
    /\ before' = last
    /\ UNCHANGED <<heap, kind, obj, nObjs>>

\* the containers there are: prod once something is bound to it
Bound == {c \in AllConts : obj[c] # None}

CopyNext ==
    \/ \E c \in Conts : CopyOf(c)
    \/ \E c \in Conts, x \in Conts : Plus(c, x)
    \/ \E c \in Conts, xs \in ExtendInputs : PlusList(c, xs)
    \/ \E c \in Bound, x \in {1, NonCard} : AppendNew(c, x)
    \/ \E c \in Bound : ClearAll(c)
    \/ \E c \in Bound : DrawTop(c)
    \/ \E c \in Bound : CutAt(c, FALSE, 0)
    \/ \E c \in Bound : \E i \in {1, Len(cards[c])} : FlipAt(c, i)

CopySpec == Init /\ [][CopyNext]_vars

\* the calls that change which cards a container holds, or their order
Structural == {"append", "draw", "cut", "clear"}

\* C16: copy() returns a new container over the same Card objects in the same
\* order; a flip through either container shows through the other, and an
\* append, draw, cut or clear on one leaves the other's sequence as it was.
C16_CopyIsShallow ==
    [][/\ \A c \in Conts : Did("copy", c) =>
              /\ last'.err = "ok"
              /\ cards'["prod"] = cards[c]
              /\ obj'["prod"] \notin {obj[c2] : c2 \in Conts}
              /\ kind'["prod"] = kind[c]
              /\ cards'[c] = cards[c]
              /\ heap' = heap
       /\ (last.op = "copy" /\ last.err = "ok") =>
              LET src == last.c
              IN  /\ \A i \in 1..Len(cards[src]) :
                        (Did("flip", "prod") /\ last'.n = i) =>
                            heap'[cards[src][i]].face_up = ~heap[cards[src][i]].face_up
                  /\ \A i \in 1..Len(cards["prod"]) :
                        (Did("flip", src) /\ last'.n = i) =>
                            heap'[cards["prod"][i]].face_up = ~heap[cards["prod"][i]].face_up
                  /\ (last'.op \in Structural /\ last'.c = "prod") => cards'[src] = cards[src]
                  /\ (last'.op \in Structural /\ last'.c = src) =>
                        cards'["prod"] = cards["prod"]
      ]_vars

\* a card flipped through the copy of the 52-card deck is face up in the deck
C16_Witness ==
    /\ before.op = "copy" /\ before.c = "deck" /\ before.err = "ok"
    /\ last.op = "flip" /\ last.c = "prod" /\ last.n = 52
    /\ Len(cards["deck"]) = 52 /\ cards["prod"] = cards["deck"]
    /\ heap[cards["deck"][52]].face_up

\* C19: c + other returns a new container holding c's cards followed by
\* other's in order; neither operand's sequence changes, and a later append,
\* draw, cut or clear on the result changes neither operand.
C19_SumIsNewContainer ==
    [][/\ \A c \in Conts : (Did("add", c) /\ AllCards(last'.args)) =>
              /\ last'.err = "ok"
              /\ cards'["prod"] = cards[c] \o last'.args
              /\ obj'["prod"] \notin {obj[c2] : c2 \in Conts}
              /\ \A c2 \in Conts : cards'[c2] = cards[c2]
       /\ (last.op = "add" /\ last.err = "ok" /\ last'.op \in Structural /\ last'.c = "prod") =>
              \A c2 \in Conts : cards'[c2] = cards[c2]
      ]_vars

\* deck + hand, then a card drawn from the sum: 52 and 4 cards are still there
C19_Witness ==
    /\ before.op = "add" /\ before.c = "deck" /\ before.err = "ok" /\ ~before.flag
    /\ Len(before.args) = 4 /\ before.args = cards["hand"]
    /\ last.op = "draw" /\ last.c = "prod" /\ last.err = "ok"
    /\ Len(cards["deck"]) = 52 /\ Len(cards["prod"]) = 55
    /\ cards["prod"] = cards["deck"] \o SubSeq(cards["hand"], 1, 3)

----------------------------------------------------------------------------
(* Display: str(card) and format(card, key) *)

\* colorama's escape sequences, ESC written out
ForeBlack == "ESC[30m"
StyleDim == "ESC[2m"
StyleResetAll == "ESC[0m"

\* Card.__str__
Str(card) ==
    IF card.face_up
    THEN ForeBlack \o RankValue[card.rank] \o SuitValue[card.suit] \o StyleResetAll
    ELSE StyleDim \o "Card" \o StyleResetAll

\* Card.__format__(format_spec); f"{card}" passes the empty format_spec
Format(card, format_spec) ==
    CASE format_spec = "rank" -> [err |-> "ok", text |-> RankValue[card.rank]]
      [] format_spec = "suit" -> [err |-> "ok", text |-> SuitValue[card.suit]]
      [] format_spec = "color" -> [err |-> "ok", text |-> ColorValue[card.color]]
      [] OTHER -> [err |-> "TypeError", text |-> ""]

\* the keys a program formats a card with
FormatInputs == {"", "rank", "suit", "color", "value"}

\* str(heap[id])
Show(id) ==
    /\ nOps < MaxOps
    /\ last' = Call("str", "deck", id, 0, FALSE, <<>>, "ok", <<Str(heap[id])>>, <<>>, FALSE)
    /\ nOps' = nOps + 1
    /\ before' = last
    /\ UNCHANGED <<heap, cards, kind, obj, nObjs>>

\* format(heap[id], key)
FormatWith(id, key) ==
    /\ nOps < MaxOps
    /\ LET r == Format(heap[id], key)
       IN  last' = Call("format", "deck", id, 0, FALSE, <<key>>, r.err,
                        IF r.err = "ok" THEN <<r.text>> ELSE <<>>, <<>>, FALSE)
    /\ nOps' = nOps + 1
    /\ before' = last
    /\ UNCHANGED <<heap, cards, kind, obj, nObjs>>

ShowNext ==
    \/ Show(1)
    \/ \E key \in FormatInputs : FormatWith(1, key)
    \/ FlipCard(1)

ShowSpec == OneCard /\ [][ShowNext]_vars

\* the full textual form: "<RANK NAME> of <SUIT NAME> <suit symbol>"
FullText(card) == card.rank \o " of " \o card.suit \o " " \o SuitValue[card.suit]

\* C17: displaying a card, and formatting it with no key, yields its full
\* textual form; the keys rank, suit and color yield the rank's display string,
\* the suit's symbol and "red" / "black"; any other key fails (TypeError).
C17_Display ==
    /\ last.op = "str" => (last.err = "ok" /\ last.ret = <<FullText(heap[last.n])>>)
    /\ last.op = "format" =>
          LET card == heap[last.n]
              key == last.args[1]
          IN  CASE key = "" -> last.err = "ok" /\ last.ret = <<FullText(card)>>
                [] key = "rank" -> last.err = "ok" /\ last.ret = <<RankValue[card.rank]>>
                [] key = "suit" -> last.err = "ok" /\ last.ret = <<SuitValue[card.suit]>>
                [] key = "color" ->
                      /\ last.err = "ok"
                      /\ last.ret = <<IF card.suit \in {"HEARTS", "DIAMONDS"}
                                      THEN "red" ELSE "black">>
                [] OTHER -> last.err = "TypeError"

----------------------------------------------------------------------------
(* Products *)

\* C18: for an integer n >= 0, c * n is a new container of n * len(c) cards
\* (none for n = 0) and c's card sequence is as it was; a negative n fails
\* (ValueError) and makes no container.
C18_ProductLength ==
    [][\A c \in Conts :
        Did("mul", c) =>
            IF last'.n >= 0
            THEN /\ last'.err = "ok"
                 /\ Len(cards'["prod"]) = last'.n * Len(cards[c])
                 /\ obj'["prod"] \notin {obj[c2] : c2 \in Conts}
                 /\ kind'["prod"] = kind[c]
                 /\ \A c2 \in Conts : cards'[c2] = cards[c2]
            ELSE /\ last'.err = "ValueError"
                 /\ cards' = cards /\ obj' = obj
      ]_vars

\* deck * MaxMul after deck * 0: from no cards to MaxMul * 52, the deck keeping 52
C18_Witness ==
    /\ before.op = "mul" /\ before.n = 0 /\ before.err = "ok"
    /\ last.op = "mul" /\ last.c = "deck" /\ last.n = MaxMul /\ last.err = "ok"
    /\ Len(cards["deck"]) = 52
    /\ Len(cards["prod"]) = MaxMul * 52

----------------------------------------------------------------------------
(* Drawing from a container that has become empty *)

\* short lists of cards passed to Deck(...) and Hand(...): indices into SampleCards
SmallInputs == { <<1>>, <<2, 3>> }

\* the state after `deck = Deck(xs)` and `hand = Hand(ys)` for new cards xs, ys
ConstructedFrom(xs, ys) ==
    LET a == Alloc(<<>>, xs, <<>>)
        d == DeckInit(a.heap, 0, a.ids, FALSE, 1)
        b == Alloc(d.heap, ys, <<>>)
        hd == HandInit(b.ids)
    IN  /\ d.err = "ok" /\ hd.err = "ok"
        /\ heap = b.heap
        /\ cards = [deck |-> d.cards, hand |-> hd.cards, prod |-> <<>>]
        /\ kind = [deck |-> "Deck", hand |-> "Hand", prod |-> "Deck"]
        /\ obj = [deck |-> 1, hand |-> d.nObjs + 1, prod |-> None]
        /\ nObjs = d.nObjs + 1
        /\ last = Call("Deck", "deck", 1, 0, FALSE, a.ids, d.err, <<>>, <<>>, FALSE)
        /\ before = Call("none", "deck", 0, 0, FALSE, <<>>, "ok", <<>>, <<>>, FALSE)
        /\ nOps = 0

\* containers of any size: empty, standard, or of a card or two
EmptyInit == Init \/ \E xs \in SmallInputs, ys \in SmallInputs : ConstructedFrom(xs, ys)

\* draw_multiple(len) on a container of a few cards
DrainCounts(c) == {Len(cards[c])} \cap (0..MaxCount)

EmptyNext ==
    \/ \E c \in Bound : ClearAll(c)
    \/ \E c \in Conts : Multiply(c, 0)
    \/ \E c \in Conts : \E n \in DrainCounts(c) : DrawMany(c, n)
    \/ DealOut(4, Len(cards["deck"]) \div 4)
    \/ \E c \in Bound : DrawTop(c)

EmptySpec == EmptyInit /\ [][EmptyNext]_vars

\* C20: draw() on an empty Deck and play() on an empty Hand fail (ValueError)
\* and the container is still empty, whether it was constructed empty, cleared,
\* made by a multiplication by 0, or drained by draws or a deal.
C20_DrawFromEmptyFails ==
    [][\A c \in AllConts :
        (Did("draw", c) /\ obj[c] # None /\ Len(cards[c]) = 0) =>
            /\ last'.err = "ValueError"
            /\ last'.ret = <<>>
            /\ cards'[c] = <<>>
            /\ heap' = heap
      ]_vars

\* a deck dealt out to its last card, and a draw from it that failed
C20_Witness ==
    /\ before.op = "deal" /\ before.err = "ok" /\ before.n * before.m >= 52
    /\ last.op = "draw" /\ last.c = "deck" /\ last.err = "ValueError"
    /\ cards["deck"] = <<>>

----------------------------------------------------------------------------
(* Building a shoe: `deck` is bound again to a newly constructed Deck        *)

\* deck = Deck(init=init, deck_count=k)
NewDeck(init, k) ==
    /\ nOps < MaxOps
    /\ LET r == DeckInit(heap, nObjs, <<>>, init, k)
       IN  /\ last' = Call("Deck", "deck", k, 0, init, <<>>, r.err, <<>>, <<>>, FALSE)
           /\ IF r.err = "ok"
              THEN /\ heap' = r.heap
                   /\ cards' = [cards EXCEPT !["deck"] = r.cards]
                   /\ obj' = [obj EXCEPT !["deck"] = nObjs + 1]
                   /\ nObjs' = r.nObjs
              ELSE UNCHANGED <<heap, cards, obj, nObjs>>
    /\ nOps' = nOps + 1
    /\ before' = last
    /\ UNCHANGED kind

\* Deck(init=True) + Deck(init=True), built on heap h
StandardSum(h, nO) ==
    LET a == DeckInit(h, nO, <<>>, TRUE, 1)
        b == DeckInit(a.heap, a.nObjs, <<>>, TRUE, 1)
    IN  Add(b.heap, b.nObjs, a.cards, ListCopy(b.cards))

BuildNext ==
    \/ \E init \in BOOLEAN, k \in 0..MaxDeckCount : NewDeck(init, k)
    \/ \E c \in Conts, x \in Conts : Plus(c, x)
    \/ \E c \in Bound : DrawTop(c)

BuildSpec == Init /\ [][BuildNext]_vars

\* the (rank, suit) of the cards cs, bottom to top
Faces(h, cs) == [i \in 1..Len(cs) |-> <<h[cs[i]].rank, h[cs[i]].suit>>]

\* C21: Deck(init=True, deck_count=2) holds, bottom to top, the ranks and
\* suits of Deck(init=True) + Deck(init=True): a standard deck with another
\* standard deck on top of it.
C21_DeckCountTwoIsSum ==
    [][(Did("Deck", "deck") /\ last'.flag /\ last'.n = 2 /\ last'.err = "ok") =>
          LET s == StandardSum(heap, nObjs)
          IN  Faces(heap', cards'["deck"]) = Faces(s.heap, s.cards)
      ]_vars

----------------------------------------------------------------------------
(* Putting cards on and taking them off again *)

StackNext ==
    \/ \E c \in Conts, x \in {1, NonCard} : AppendNew(c, x)
    \/ \E c \in Conts, xs \in ExtendInputs : ExtendNew(c, xs)
    \/ \E c \in Conts : DrawTop(c)
    \/ \E c \in Conts : \E count \in DrawCounts(c) : DrawMany(c, count)

StackSpec == Init /\ [][StackNext]_vars

\* C22: append and extend put their cards on top, in order; draw() right
\* after append(c) returns c, and draw_multiple(k) right after
\* extend([c1..ck]) on a Deck returns [ck..c1]; both leave the container as it
\* was before the cards were put on.
C22_PushedCardsComeBackFirst ==
    [][\A c \in Conts :
        /\ (Did("append", c) /\ last'.err = "ok") =>
               cards'[c] = Append(cards[c], last'.args[1])
        /\ (Did("extend", c) /\ last'.err = "ok") =>
               cards'[c] = cards[c] \o last'.args
        /\ (last.op = "append" /\ last.c = c /\ last.err = "ok" /\ Did("draw", c)) =>
               /\ last'.err = "ok"
               /\ last'.ret = last.args
               /\ Append(cards'[c], last.args[1]) = cards[c]
        /\ (/\ last.op = "extend" /\ last.c = c /\ last.err = "ok"
            /\ kind[c] = "Deck"
            /\ Did("draw_multiple", c) /\ last'.n = Len(last.args)) =>
               /\ last'.err = "ok"
               /\ last'.ret = Reversed(last.args)
               /\ cards'[c] \o last.args = cards[c]
      ]_vars

\* two cards are put on a full deck and taken off again
C22_Witness ==
    /\ before.op = "extend" /\ before.c = "deck" /\ before.err = "ok"
    /\ Len(before.args) = 2
    /\ last.op = "draw_multiple" /\ last.c = "deck" /\ last.n = 2
    /\ last.ret = Reversed(before.args)
    /\ Len(cards["deck"]) = 52

----------------------------------------------------------------------------
(* Shuffling: random.shuffle rearranges the list in place; the arrangement   *)
(* it produces is the choice of the random source                            *)

\* a shuffle that stores the chosen card on top without moving the top card away
ShuffleOverwrite(cs, perm) ==
    Ok([i \in 1..Len(cs) |-> IF i = Len(cs) THEN cs[perm[i]] ELSE cs[i]], <<>>)

\* Deck.shuffle / Hand.shuffle: shuffle(self.cards), where position i receives
\* the card that lay at position perm[i]
Shuffle(cs, perm) == Ok([i \in 1..Len(cs) |-> cs[perm[i]]], <<>>)

\* the arrangements drawn for a list of n cards: every one for a short list;
\* for a long list the identity, the reversal, a rotation and a swap of the ends
Arrangements(n) ==
    IF n <= MaxShuffle THEN Permutations(1..n)
    ELSE { [i \in 1..n |-> i],
           [i \in 1..n |-> n + 1 - i],
           [i \in 1..n |-> (i % n) + 1],
           [i \in 1..n |-> IF i = 1 THEN n ELSE IF i = n THEN 1 ELSE i] }

\* c.shuffle()
ShuffleOf(c, perm) ==
    /\ nOps < MaxOps
    /\ LET r == Shuffle(cards[c], perm)
       IN  /\ cards' = [cards EXCEPT ![c] = r.cards]
           /\ last' = Call("shuffle", c, 0, 0, FALSE, perm, r.err, <<>>, <<>>, FALSE)
    /\ nOps' = nOps + 1
    /\ before' = last
    /\ UNCHANGED <<heap, kind, obj, nObjs>>

ShuffleNext ==
    \/ \E c \in Conts : \E perm \in Arrangements(Len(cards[c])) : ShuffleOf(c, perm)
    \/ \E c \in Conts : FlipAt(c, 1)

ShuffleSpec == Init /\ [][ShuffleNext]_vars

\* how many times the object x is in the list cs
Occurrences(cs, x) == Cardinality({i \in 1..Len(cs) : cs[i] = x})

\* C23: shuffle() succeeds and leaves the container with the same Card objects,
\* each as many times as before (so the same length), and leaves every card,
\* its face-up flag included, as it was; only the order may differ.
C23_ShuffleIsPermutation ==
    [][\A c \in Conts :
        Did("shuffle", c) =>
            /\ last'.err = "ok"
            /\ Len(cards'[c]) = Len(cards[c])
            /\ \A x \in Range(cards[c]) \cup Range(cards'[c]) :
                   Occurrences(cards'[c], x) = Occurrences(cards[c], x)
            /\ heap' = heap
            /\ \A x \in Conts \ {c} : cards'[x] = cards[x]
      ]_vars

\* a hand with a face-up card is shuffled into another order
C23_Witness ==
    /\ last.op = "shuffle" /\ last.c = "hand" /\ last.err = "ok"
    /\ Len(cards["hand"]) = 4
    /\ last.args # <<1, 2, 3, 4>>
    /\ before.op = "flip" /\ before.c = "hand"
    /\ \E i \in 1..4 : heap[cards["hand"][i]].face_up

----------------------------------------------------------------------------
(* Cutting containers of odd and even length *)

RotateNext ==
    \/ CutNext
    \/ \E c \in Conts : DrawTop(c)

RotateSpec == Init /\ [][RotateNext]_vars

\* C24: cut(index) with 0 <= index <= len puts the card at position index
\* (0-based) at the bottom, followed by the cards above it and then by the
\* cards that lay below it: old[index:] + old[:index]; cut() does so with
\* index = floor(len / 2); any other index fails with ValueError and the order
\* stays as it was.
C24_CutRotates ==
    [][\A c \in Conts :
        Did("cut", c) =>
            LET old == cards[c]
                n == Len(old)
                index == IF last'.flag THEN last'.n ELSE n \div 2
            IN  IF 0 <= index /\ index <= n
                THEN /\ last'.err = "ok"
                     /\ cards'[c] = [k \in 1..n |-> old[((k - 1 + index) % n) + 1]]
                ELSE /\ last'.err = "ValueError"
                     /\ cards'[c] = old
      ]_vars

\* cut() on a hand of three cards: the bottom card goes on top
C24_Witness ==
    /\ before.op = "draw" /\ before.c = "hand" /\ before.err = "ok"
    /\ last.op = "cut" /\ last.c = "hand" /\ ~last.flag /\ last.err = "ok"
    /\ Len(cards["hand"]) = 3
    /\ last.n = 1

----------------------------------------------------------------------------
(* Removing a card *)

\* the positions of cs whose card equals card under Card.__eq__
Matches(h, cs, card) == {i \in 1..Len(cs) : CardEq(h[cs[i]], h[card])}

\* the list cs without its element at position i
Without(cs, i) == SubSeq(cs, 1, i - 1) \o SubSeq(cs, i + 1, Len(cs))

\* a remove that deletes the last occurrence
RemoveLast(h, cs, card) ==
    IF ~IsCard(card) THEN Raise("TypeError", cs)
    ELSE IF Matches(h, cs, card) = {} THEN Raise("ValueError", cs)
    ELSE Ok(Without(cs, CHOOSE i \in Matches(h, cs, card) :
                            \A j \in Matches(h, cs, card) : j <= i), <<>>)

\* Deck.remove / Hand.remove: list.remove(card) deletes the first element equal
\* to card and raises ValueError when there is none
Remove(h, cs, card) ==
    IF ~IsCard(card) THEN Raise("TypeError", cs)
    ELSE IF Matches(h, cs, card) = {} THEN Raise("ValueError", cs)
    ELSE Ok(Without(cs, CHOOSE i \in Matches(h, cs, card) :
                            \A j \in Matches(h, cs, card) : i <= j), <<>>)

\* the arguments passed to remove: indices into SampleCards, or a non-Card value
RemoveInputs == {1, 2, 3, NonCard}

\* c.remove(x) for a new card or a non-Card value x
RemoveNew(c, x) ==
    /\ nOps < MaxOps
    /\ LET a == Alloc(heap, <<x>>, <<>>)
           r == Remove(a.heap, cards[c], a.ids[1])
       IN  /\ heap' = a.heap
           /\ cards' = [cards EXCEPT ![c] = r.cards]
           /\ last' = Call("remove", c, 0, 0, FALSE, a.ids, r.err, <<>>, <<>>, FALSE)
    /\ nOps' = nOps + 1
    /\ before' = last
    /\ UNCHANGED <<kind, obj, nObjs>>

RemoveNext ==
    \/ \E c \in Conts, x \in RemoveInputs : RemoveNew(c, x)
    \/ \E c \in Conts : \E i \in FlipInputs(c) : FlipAt(c, i)
    \/ \E c \in Conts : DrawTop(c)

RemoveSpec == Init /\ [][RemoveNext]_vars

\* C25: remove(card) with a Card deletes the lowest-index card of the same rank
\* and suit and nothing else: the length and count(card) drop by 1 and the
\* other cards keep their order; when no card of that rank and suit is there
\* it fails with ValueError and the container is as before.
C25_RemoveFirstMatch ==
    [][\A c \in Conts :
        (Did("remove", c) /\ IsCard(last'.args[1])) =>
            LET old == cards[c]
                new == cards'[c]
                probe == heap'[last'.args[1]]
                same == {i \in 1..Len(old) :
                            /\ heap[old[i]].rank = probe.rank
                            /\ heap[old[i]].suit = probe.suit}
            IN  IF same # {}
                THEN /\ last'.err = "ok"
                     /\ Len(new) = Len(old) - 1
                     /\ Count(heap', new, probe) = Count(heap, old, probe) - 1
                     /\ \E i \in same :
                            /\ \A j \in same : i <= j
                            /\ \A k \in 1..Len(new) :
                                   new[k] = IF k < i THEN old[k] ELSE old[k + 1]
                     /\ \A x \in 1..Len(heap) : heap'[x] = heap[x]
                ELSE /\ last'.err = "ValueError"
                     /\ new = old
      ]_vars

\* a hand holding two cards of one rank and suit loses the lower one
C25_Witness ==
    /\ last.op = "remove" /\ last.c = "hand" /\ last.err = "ok"
    /\ Len(cards["hand"]) = 3
    /\ Count(heap, cards["hand"], heap[last.args[1]]) = 1
    /\ CardEq(heap[cards["hand"][3]], heap[last.args[1]])

----------------------------------------------------------------------------
(* Sorting by orderings that leave out a rank or a suit *)

\* a list without the element x
Except(xs, x) == SelectSeq(xs, LAMBDA y : y # x)

\* orderings passed to sort(ranks=..., suits=...): without the ACE, without
\* CLUBS, without the QUEEN, complete, and empty
PartialOrders == << [ranks |-> Given(Except(RANKS, "ACE")), suits |-> Given(SUITS)],
                    [ranks |-> Given(RANKS), suits |-> Given(Except(SUITS, "CLUBS"))],
                    [ranks |-> Given(Except(RANKS, "QUEEN")), suits |-> Given(HeartsHigh)],
                    [ranks |-> Given(AceLow), suits |-> Given(HeartsHigh)],
                    [ranks |-> Given(<<>>), suits |-> Given(<<>>)] >>

\* c.sort(ranks=..., suits=..., reverse=reverse) with the k-th of PartialOrders
SortWith(c, k, reverse) ==
    /\ nOps < MaxOps
    /\ LET r == Sort(heap, cards[c], PartialOrders[k].ranks, PartialOrders[k].suits, reverse)
       IN  /\ cards' = [cards EXCEPT ![c] = r.cards]
           /\ last' = Call("sort", c, k, 0, reverse, <<>>, r.err, <<>>, <<>>, FALSE)
    /\ nOps' = nOps + 1
    /\ before' = last
    /\ UNCHANGED <<heap, kind, obj, nObjs>>

PartialNext ==
    \/ \E c \in Conts, k \in 1..Len(PartialOrders), reverse \in BOOLEAN : SortWith(c, k, reverse)
    \/ \E c \in Conts : DrawTop(c)

PartialSpec == Init /\ [][PartialNext]_vars

\* C26: sort(ranks=R, suits=S) on a container holding a card whose rank is not
\* in R or whose suit is not in S fails with ValueError, and the cards are in
\* the order they had before the call.
C26_SortMissingOrderFails ==
    [][\A c \in Conts :
        Did("sort", c) =>
            LET o == PartialOrders[last'.n]
                old == cards[c]
            IN  (\E i \in 1..Len(old) :
                    \/ heap[old[i]].rank \notin Range(o.ranks.order)
                    \/ heap[old[i]].suit \notin Range(o.suits.order)) =>
                        /\ last'.err = "ValueError"
                        /\ cards'[c] = old
      ]_vars

\* a deck sorted with the ACE low is sorted again by ranks without the ACE
C26_Witness ==
    /\ before.op = "sort" /\ before.c = "deck" /\ before.n = 4 /\ before.err = "ok"
    /\ last.op = "sort" /\ last.c = "deck" /\ last.n = 1 /\ last.err = "ValueError"
    /\ Len(cards["deck"]) = 52
    /\ cards["deck"] # [k \in 1..52 |-> k]

----------------------------------------------------------------------------
(* Assigning values that the setters do not accept *)

\* values that are neither a Rank nor a Suit nor a shorthand of one
BadInputs ==
    {Val("str", "X"), Val("str", "1"), Val("str", "HEARTS"), Val("int", "3"),
     Val("NoneType", "None")}

AssignNext ==
    \/ \E v \in RankInputs \cup BadInputs : SetAttr(1, "rank", v)
    \/ \E v \in SuitInputs \cup BadInputs : SetAttr(1, "suit", v)
    \/ FlipCard(1)

AssignSpec == OneCard /\ [][AssignNext]_vars

\* C27: setting a card's rank or suit to a string that is no shorthand of a
\* rank (of a suit) fails with ValueError, setting it to a value that is neither
\* a string nor a Rank (a Suit) fails with TypeError, and in both cases the
\* card's rank, suit and color are as before.
C27_RejectedAssignment ==
    [][\A attr \in {"rank", "suit"} :
        Did(attr, "deck") =>
            LET v == last'.args[1]
                shorthand == IF attr = "rank" THEN RankFromStr(v.v) # "None"
                             ELSE SuitFromStr(v.v) # "None"
                enum == IF attr = "rank" THEN "Rank" ELSE "Suit"
                same == /\ heap'[1].rank = heap[1].rank
                        /\ heap'[1].suit = heap[1].suit
                        /\ heap'[1].color = heap[1].color
            IN  /\ (v.t = "str" /\ ~shorthand) => (last'.err = "ValueError" /\ same)
                /\ (v.t \notin {"str", enum}) => (last'.err = "TypeError" /\ same)
      ]_vars

----------------------------------------------------------------------------
(* Extending from a list or from a one-pass iterator over a list *)

\* all(isinstance(card, Card) for card in xs): how many elements it draws from
\* xs, stopping after the first that is not a Card
Drawn(xs) ==
    IF AllCards(xs) THEN Len(xs)
    ELSE CHOOSE k \in 1..Len(xs) : ~IsCard(xs[k]) /\ AllCards(SubSeq(xs, 1, k - 1))

\* what a second pass over the argument yields: a list yields all its elements
\* again, an iterator only those the check did not draw
SecondPass(xs, onePass) ==
    IF onePass THEN SubSeq(xs, Drawn(xs) + 1, Len(xs)) ELSE xs

\* Deck.extend / Hand.extend with a list or an iterator over the elements xs
ExtendFrom(cs, xs, onePass) ==
    IF ~AllCards(xs) THEN Raise("TypeError", cs)
    ELSE Ok(cs \o SecondPass(xs, onePass), <<>>)

\* lists of new cards passed directly or through iter(...) or a generator
FeedInputs == ExtendInputs \cup { <<>>, <<3>> }

\* c.extend(xs), or c.extend(iter(xs)) when onePass
ExtendIter(c, xs, onePass) ==
    /\ nOps < MaxOps
    /\ LET a == Alloc(heap, xs, <<>>)
           r == ExtendFrom(cards[c], a.ids, onePass)
       IN  /\ heap' = a.heap
           /\ cards' = [cards EXCEPT ![c] = r.cards]
           /\ last' = Call("extend", c, 0, 0, onePass, a.ids, r.err, r.ret, <<>>, FALSE)
    /\ nOps' = nOps + 1
    /\ before' = last
    /\ UNCHANGED <<kind, obj, nObjs>>

FeedNext ==
    \/ \E c \in Conts, xs \in FeedInputs, onePass \in BOOLEAN : ExtendIter(c, xs, onePass)
    \/ \E c \in Conts : DrawTop(c)

FeedSpec == Init /\ [][FeedNext]_vars

\* C28: extend with Cards c1..ck, given as a list or as a one-pass iterator
\* or generator, succeeds and puts c1..ck on top in that order, so the length
\* grows by k.
C28_ExtendTakesAnySequence ==
    [][\A c \in Conts :
        (Did("extend", c) /\ AllCards(last'.args)) =>
            /\ last'.err = "ok"
            /\ cards'[c] = cards[c] \o last'.args
            /\ Len(cards'[c]) = Len(cards[c]) + Len(last'.args)
      ]_vars

----------------------------------------------------------------------------
(* Iterating over a container while it is changed. __iter__ returns           *)
(* iter(self.cards): an iterator over the list object that self.cards names   *)
(* at that moment. A method that changes that list in place changes what the  *)
(* iterator reads; a method that assigns a new list to self.cards leaves the  *)
(* iterator with the list it has.                                             *)
(* The iteration is recorded in `last`: n is the iterator's position, args    *)
(* the present contents of the list it reads, flag says that this list is     *)
(* still the container's, ret holds the cards yielded so far, and hands the   *)
(* contents when the iteration began. `before` is the last call made on the   *)
(* container inside the loop.                                                 *)

\* Deck.__imul__ / Hand.__imul__ for other a value of some type: a non-integer
\* passes the isinstance test, whose TypeError is not raised, and fails in the
\* comparison or in range(other)
IMul(h, nO, cs, other) ==
    IF other.t # "int" THEN [err |-> "TypeError", heap |-> h, cards |-> cs, nObjs |-> nO]
    ELSE IF other.v < 0 THEN [err |-> "ValueError", heap |-> h, cards |-> cs, nObjs |-> nO]
    ELSE IF other.v = 0 THEN [err |-> "ok", heap |-> h, cards |-> <<>>, nObjs |-> nO]
    ELSE IF other.v > 1
    THEN [err |-> "ok", heap |-> h \o DeepCopies(h, cs, other.v, nO),
          cards |-> NewIds(h, Len(cs) * other.v), nObjs |-> nO + Len(cs) * other.v]
    ELSE [err |-> "ok", heap |-> h, cards |-> cs, nObjs |-> nO]

\* a loop `for card in c` is running
Iterating == last.op = "iter" /\ last.err = "running"

\* iter(c), the start of `for card in c`
IterStart(c) ==
    /\ ~Iterating
    /\ last' = Call("iter", c, 0, 0, TRUE, cards[c], "running", <<>>, <<cards[c]>>, FALSE)
    /\ before' = Call("none", c, 0, 0, FALSE, <<>>, "ok", <<>>, <<>>, FALSE)
    /\ UNCHANGED <<heap, cards, kind, obj, nObjs, nOps>>

\* next(it): the list iterator yields the item at its position
IterYield ==
    /\ Iterating
    /\ last.n < Len(last.args)
    /\ last' = [last EXCEPT !.n = last.n + 1, !.ret = Append(last.ret, last.args[last.n + 1])]
    /\ UNCHANGED <<heap, cards, kind, obj, nObjs, before, nOps>>

\* next(it) at or past the end of the list: StopIteration, the loop ends
IterStop ==
    /\ Iterating
    /\ last.n >= Len(last.args)
    /\ last' = [last EXCEPT !.err = "ok"]
    /\ UNCHANGED <<heap, cards, kind, obj, nObjs, before, nOps>>

\* a call inside the loop on the container iterated gave it the list new; old
\* is what the list object it had before holds now, and same says that the
\* container still has that list object
Inside(call, new, old, same) ==
    /\ cards' = [cards EXCEPT ![last.c] = new]
    /\ last' = [last EXCEPT !.args = IF last.flag THEN old ELSE last.args,
                            !.flag = last.flag /\ same]
    /\ before' = call
    /\ nOps' = nOps + 1

\* c.append(x) inside the loop: self.cards.append(card)
AppendInside(x) ==
    /\ Iterating /\ nOps < MaxOps
    /\ LET a == Alloc(heap, <<x>>, <<>>)
           r == AppendCard(cards[last.c], a.ids[1])
       IN  /\ heap' = a.heap
           /\ Inside(Call("append", last.c, 0, 0, FALSE, a.ids, r.err, <<>>, <<>>, FALSE),
                     r.cards, r.cards, TRUE)
    /\ UNCHANGED <<kind, obj, nObjs>>

\* c.cut(index) inside the loop: self.cards = self.cards[index:] + self.cards[:index]
CutInside(index) ==
    /\ Iterating /\ nOps < MaxOps
    /\ LET r == Cut(cards[last.c], index)
       IN  Inside(Call("cut", last.c, index, 0, TRUE, <<>>, r.err, <<>>, <<>>, FALSE),
                  r.cards, cards[last.c], r.err # "ok")
    /\ UNCHANGED <<heap, kind, obj, nObjs>>

\* c.clear() inside the loop: self.cards.clear(), and in Deck.clear then
\* self.cards = []
ClearInside ==
    /\ Iterating /\ nOps < MaxOps
    /\ LET r == Clear(cards[last.c])
       IN  Inside(Call("clear", last.c, 0, 0, FALSE, <<>>, r.err, <<>>, <<>>, FALSE),
                  r.cards, <<>>, kind[last.c] = "Hand")
    /\ UNCHANGED <<heap, kind, obj, nObjs>>

\* c *= n inside the loop: self.clear() for 0, self.cards = [...] for n > 1
IMulInside(n) ==
    /\ Iterating /\ nOps < MaxOps
    /\ LET r == IMul(heap, nObjs, cards[last.c], Val("int", n))
       IN  /\ heap' = r.heap
           /\ nObjs' = r.nObjs
           /\ Inside(Call("imul", last.c, n, 0, FALSE, <<>>, r.err, <<>>, <<>>, FALSE),
                     r.cards,
                     IF r.err = "ok" /\ n = 0 THEN <<>> ELSE cards[last.c],
                     \/ r.err # "ok"
                     \/ n = 1
                     \/ n = 0 /\ kind[last.c] = "Hand")
    /\ UNCHANGED <<kind, obj>>

\* containers of up to four cards
IterInit ==
    \/ \E xs \in HandInputs : Constructed(FALSE, 1, xs)
    \/ \E xs \in SmallInputs, ys \in SmallInputs : ConstructedFrom(xs, ys)

IterNext ==
    \/ \E c \in Conts : IterStart(c)
    \/ IterYield
    \/ IterStop
    \/ \E x \in {1, NonCard} : AppendInside(x)
    \/ \E index \in {1, 5} : CutInside(index)
    \/ ClearInside
    \/ \E n \in (-1)..MaxMul : IMulInside(n)

IterSpec == IterInit /\ [][IterNext]_vars

\* the cards the running loop has still to yield
ToYield == SubSeq(last.args, last.n + 1, Len(last.args))

\* the loop sees the container as it is now
LiveView ==
    Iterating => ToYield = SubSeq(cards[last.c], last.n + 1, Len(cards[last.c]))

\* the loop sees the container as it was when the loop began
SnapshotView == Iterating => last.args = last.hands[1]

\* C29: every iteration request starts at the bottom of the present contents
\* and, left alone, yields them bottom to top; and the loops treat all calls
\* made inside them alike, so at every moment of a loop the cards it goes on
\* with are either what its container holds now (all calls seen) or what the
\* container held when the loop began (no call seen).
C29_IterationConsistent ==
    /\ [][\A c \in Conts :
            /\ Did("iter", c) /\ ~Iterating =>
                   last'.n = 0 /\ last'.args = cards[c] /\ last'.ret = <<>>
            /\ (Iterating /\ ~Iterating' /\ last.c = c /\ before.op = "none") =>
                   last'.ret = cards[c]
         ]_vars
    /\ [](LiveView \/ SnapshotView)

----------------------------------------------------------------------------
(* What the containers accept: every call that can put something in a list   *)

\* Deck.insert / Hand.insert: list.insert(index, card), which counts a negative
\* index from the end and brings an index beyond either end to that end
Insert(cs, index, card) ==
    IF ~IsCard(card) THEN Raise("TypeError", cs)
    ELSE LET n == Len(cs)
             i == IF index < 0 THEN Max(index + n, 0) ELSE Min(index, n)
         IN  Ok(SubSeq(cs, 1, i) \o <<card>> \o SubSeq(cs, i + 1, n), <<>>)

\* an item assignment that stores whatever it is given
SetItemUnchecked(cs, index, value) ==
    LET n == Len(cs)
    IN  IF index.t = "slice" THEN Raise("TypeError", cs)
        ELSE IF index.v < -n \/ index.v >= n THEN Raise("IndexError", cs)
        ELSE Ok([cs EXCEPT ![(IF index.v < 0 THEN index.v + n ELSE index.v) + 1] =
                               IF value.t = "list" THEN NonCard ELSE value.v], <<>>)

\* Deck.__setitem__ / Hand.__setitem__ for an integer or a slice index: after
\* the isinstance test the value is a Card, which is not an iterable, so list
\* assignment to a slice raises TypeError
SetItem(cs, index, value) ==
    LET n == Len(cs)
    IN  IF value.t # "Card" THEN Raise("TypeError", cs)
        ELSE IF index.t = "slice" THEN Raise("TypeError", cs)
        ELSE IF index.v < -n \/ index.v >= n THEN Raise("IndexError", cs)
        ELSE Ok([cs EXCEPT ![(IF index.v < 0 THEN index.v + n ELSE index.v) + 1] = value.v],
                <<>>)

\* Deck.__iadd__ / Hand.__iadd__: list(other), the check, then self.extend
IAdd(cs, other) ==
    IF other.t \notin {"list", "iter"} THEN Raise("TypeError", cs)
    ELSE IF ~AllCards(other.v) THEN Raise("TypeError", cs)
    ELSE Extend(cs, other.v)

\* c = Deck(xs) or c = Hand(xs) for a list xs of new cards and non-Card values:
\* c is bound to the new container if the constructor returns
Rebuild(c, xs) ==
    /\ nOps < MaxOps
    /\ LET a == Alloc(heap, xs, <<>>)
           r == IF kind[c] = "Deck" THEN DeckInit(a.heap, nObjs, a.ids, FALSE, 1)
                ELSE HandNew(a.heap, nObjs, a.ids)
       IN  /\ last' = Call(kind[c], c, 1, 0, FALSE, a.ids, r.err, <<>>, <<>>, FALSE)
           /\ IF r.err = "ok"
              THEN /\ heap' = r.heap
                   /\ cards' = [cards EXCEPT ![c] = r.cards]
                   /\ obj' = [obj EXCEPT ![c] = nObjs + 1]
                   /\ nObjs' = r.nObjs
              ELSE heap' = a.heap /\ UNCHANGED <<cards, obj, nObjs>>
    /\ nOps' = nOps + 1
    /\ before' = last
    /\ UNCHANGED kind

\* the indices and values of insert: indices into SampleCards, or a non-Card value
InsertInputs == { <<-1, 2>>, <<0, NonCard>>, <<9, 2>> }

\* c.insert(index, x) for a new card or a non-Card value x
InsertNew(c, index, x) ==
    /\ nOps < MaxOps
    /\ LET a == Alloc(heap, <<x>>, <<>>)
           r == Insert(cards[c], index, a.ids[1])
       IN  /\ heap' = a.heap
           /\ cards' = [cards EXCEPT ![c] = r.cards]
           /\ last' = Call("insert", c, index, 0, FALSE, a.ids, r.err, <<>>, <<>>, FALSE)
    /\ nOps' = nOps + 1
    /\ before' = last
    /\ UNCHANGED <<kind, obj, nObjs>>

\* the indices and values of c[index] = value: value.v lists indices into
\* SampleCards and non-Card values; a value of type Card or int has one
ItemInputs ==
    { <<Val("int", 0), Val("Card", <<3>>)>>, <<Val("int", -1), Val("int", <<NonCard>>)>>,
      <<Val("int", 9), Val("Card", <<3>>)>>, <<Val("slice", <<0, 2>>), Val("Card", <<3>>)>>,
      <<Val("slice", <<0, 2>>), Val("list", <<1, 2>>)>> }

\* c[index] = value
SetItemAt(c, index, value) ==
    /\ nOps < MaxOps
    /\ LET a == Alloc(heap, value.v, <<>>)
           v == Val(value.t, IF value.t = "list" THEN a.ids ELSE a.ids[1])
           r == SetItem(cards[c], index, v)
       IN  /\ heap' = a.heap
           /\ cards' = [cards EXCEPT ![c] = r.cards]
           /\ last' = Call("setitem", c, 0, 0, index.t = "slice", a.ids, r.err, <<>>, <<>>, FALSE)
    /\ nOps' = nOps + 1
    /\ before' = last
    /\ UNCHANGED <<kind, obj, nObjs>>

\* the right-hand sides of c += other
AddInputs == {Val("list", <<3, NonCard>>), Val("iter", <<2>>), Val("int", <<NonCard>>)}

\* c += other
IAddOf(c, other) ==
    /\ nOps < MaxOps
    /\ LET a == Alloc(heap, other.v, <<>>)
           r == IAdd(cards[c], Val(other.t, a.ids))
       IN  /\ heap' = a.heap
           /\ cards' = [cards EXCEPT ![c] = r.cards]
           /\ last' = Call("iadd", c, 0, 0, other.t = "iter", a.ids, r.err, <<>>, <<>>, FALSE)
    /\ nOps' = nOps + 1
    /\ before' = last
    /\ UNCHANGED <<kind, obj, nObjs>>

\* the right-hand sides of c *= other
MulInputs == {Val("int", -1), Val("int", MaxMul), Val("float", 1)}

\* c *= other
IMulBy(c, other) ==
    /\ nOps < MaxOps
    /\ LET r == IMul(heap, nObjs, cards[c], other)
       IN  /\ heap' = r.heap
           /\ cards' = [cards EXCEPT ![c] = r.cards]
           /\ nObjs' = r.nObjs
           /\ last' = Call("imul", c, other.v, 0, other.t = "int", <<>>, r.err, <<>>, <<>>, FALSE)
    /\ nOps' = nOps + 1
    /\ before' = last
    /\ UNCHANGED <<kind, obj>>

FillNext ==
    \/ \E c \in Conts, xs \in ExtendInputs : Rebuild(c, xs)
    \/ \E c \in Conts, x \in {1, NonCard} : AppendNew(c, x)
    \/ \E c \in Conts, onePass \in BOOLEAN : ExtendIter(c, <<3, NonCard>>, onePass)
    \/ \E c \in Conts, i \in InsertInputs : InsertNew(c, i[1], i[2])
    \/ \E c \in Conts, i \in ItemInputs : SetItemAt(c, i[1], i[2])
    \/ \E c \in Conts, other \in AddInputs : IAddOf(c, other)
    \/ \E c \in Conts, other \in MulInputs : IMulBy(c, other)
    \/ \E c \in Conts : ClearAll(c)
    \/ \E c \in Conts, k \in {1, 4} : SortWith(c, k, FALSE)
    \/ \E c \in Conts : CutAt(c, TRUE, 1)

FillSpec == IterInit /\ [][FillNext]_vars

\* C30: whatever calls have been made on the containers, failed ones included,
\* every element of a container's list is a Card (an object of the heap).
C30_OnlyCards ==
    \A c \in AllConts :
        \A i \in 1..Len(cards[c]) :
            IsCard(cards[c][i]) /\ cards[c][i] \in 1..Len(heap)

\* an item assignment of a non-Card value has been refused after an insert
C30_Witness ==
    /\ before.op = "insert" /\ before.c = "deck" /\ before.err = "ok"
    /\ last.op = "setitem" /\ last.c = "deck" /\ last.err = "TypeError" /\ ~last.flag
    /\ last.args = <<NonCard>>
    /\ Len(cards["deck"]) = 3

----------------------------------------------------------------------------
(* Moving cards from the deck to the hand *)

\* the lists of ss one after the other
RECURSIVE Concat(_)
Concat(ss) == IF ss = <<>> THEN <<>> ELSE Head(ss) \o Concat(Tail(ss))

\* a move on the deck gave it the list r.cards and gave the caller the cards
\* given (none if the call raised), which the caller hands to hand.extend or,
\* one card, to hand.append
Move(op, n, m, r, given) ==
    LET e == IF r.err # "ok" THEN Raise(r.err, cards["hand"])
             ELSE IF op = "draw" THEN AppendCard(cards["hand"], given[1])
             ELSE Extend(cards["hand"], given)
    IN  /\ cards' = [cards EXCEPT !["deck"] = r.cards, !["hand"] = e.cards]
        /\ last' = Call(op, "deck", n, m, FALSE, <<>>, e.err, given, <<>>, FALSE)
        /\ nOps' = nOps + 1
        /\ before' = last
        /\ UNCHANGED <<heap, kind, obj, nObjs>>

\* hand.append(deck.draw())
MoveOne ==
    /\ nOps < MaxOps
    /\ LET r == Draw(cards["deck"])
       IN  Move("draw", 0, 0, r, r.ret)

\* hand.extend(deck.draw_multiple(count))
MoveMany(count) ==
    /\ nOps < MaxOps
    /\ LET r == DrawMultiple(cards["deck"], count)
       IN  Move("draw_multiple", count, 0, r, r.ret)

\* for cs in deck.deal(num_players, cards_per_player): hand.extend(cs)
MoveDeal(num_players, cards_per_player) ==
    /\ nOps < MaxOps
    /\ LET r == Deal(cards["deck"], num_players, cards_per_player)
       IN  Move("deal", num_players, cards_per_player, r, Concat(r.hands))

MoveNext ==
    \/ MoveOne
    \/ \E count \in DrawCounts("deck") : MoveMany(count)
    \/ \E d \in DealInputs : MoveDeal(d[1], d[2])

MoveSpec == Init /\ [][MoveNext]_vars

\* the cards of the deck and of the hand
Held == cards["deck"] \o cards["hand"]

\* C31: however cards are moved from the deck to the hand (draw and append,
\* draw_multiple and extend, deal and extend), whether the call succeeds or
\* fails, the deck and the hand together hold the same Card objects as before
\* the move, and no object twice.
C31_MovesConserveCards ==
    /\ [](Cardinality(Range(Held)) = Len(Held))
    /\ [][Range(Held)' = Range(Held)]_vars

\* a deal has followed a draw of two cards, and a card has left the deck
C31_Witness ==
    /\ before.op = "draw_multiple" /\ before.err = "ok" /\ before.n = 2
    /\ last.op = "deal" /\ last.err = "ok" /\ last.n = 3
    /\ Len(cards["deck"]) = 47
    /\ Len(cards["hand"]) = 9

----------------------------------------------------------------------------
(* Standard initialization: by the constructor and by clear(init=True) *)

\* [Card(rank, suit, self) for rank in Rank for suit in Suit] in Deck.clear: the
\* third positional parameter of Card is _face_up, so the deck is taken as the
\* face-up flag, bool(self), which is len(self) > 0 for the list cs that
\* self.cards names while the cards are made; _deck keeps its default None
StandardCardsFaceUp(cs) ==
    [i \in 1..(Len(Rank) * Len(Suit)) |->
        CardInit(Rank[((i - 1) \div Len(Suit)) + 1], Suit[((i - 1) % Len(Suit)) + 1],
                 Len(cs) > 0, None, None)]

\* Deck.clear(init=init, deck_count=deck_count): self.cards.clear(), then a new
\* list, which is repeated card by card when deck_count > 1
ClearInit(h, nO, init, deck_count) ==
    LET std == IF init THEN StandardCardsFaceUp(<<>>) ELSE <<>>
        h1 == h \o std
        own == NewIds(h, Len(std))
    IN  IF ~init \/ deck_count = 1
        THEN [err |-> "ok", heap |-> h1, cards |-> own, nObjs |-> nO]
        ELSE IF deck_count = 0
        THEN [err |-> "ok", heap |-> h1, cards |-> <<>>, nObjs |-> nO]
        ELSE IF deck_count > 1
        THEN [err |-> "ok", heap |-> h1 \o DeepCopies(h1, own, deck_count, nO),
              cards |-> NewIds(h1, Len(own) * deck_count), nObjs |-> nO]
        ELSE [err |-> "TypeError", heap |-> h1, cards |-> own, nObjs |-> nO]

\* deck.clear(init=init, deck_count=k)
ClearWith(init, k) ==
    /\ nOps < MaxOps
    /\ LET r == ClearInit(heap, nObjs, init, k)
       IN  /\ heap' = r.heap
           /\ cards' = [cards EXCEPT !["deck"] = r.cards]
           /\ nObjs' = r.nObjs
           /\ last' = Call("clear", "deck", k, 0, init, <<>>, r.err, <<>>, <<>>, FALSE)
    /\ nOps' = nOps + 1
    /\ before' = last
    /\ UNCHANGED <<kind, obj>>

StandardNext ==
    \/ \E k \in 1..MaxDeckCount : NewDeck(TRUE, k)
    \/ \E init \in BOOLEAN, k \in (-1)..MaxDeckCount : ClearWith(init, k)
    \/ \E i \in FlipInputs("deck") : FlipAt("deck", i)
    \/ DrawTop("deck")

StandardSpec == Init /\ [][StandardNext]_vars

\* C32: after d = Deck(init=True, deck_count=k) with k >= 1, and after
\* d.clear(init=True), every card of d refers to d as its deck and is face down.
C32_StandardCardsReferToDeck ==
    [][((\/ Did("Deck", "deck") /\ last'.n >= 1
         \/ Did("clear", "deck") /\ last'.n = 1)
        /\ last'.flag /\ last'.err = "ok") =>
           \A i \in 1..Len(cards'["deck"]) :
               /\ heap'[cards'["deck"][i]].deck = obj'["deck"]
               /\ ~heap'[cards'["deck"][i]].face_up
      ]_vars

----------------------------------------------------------------------------
(* Looking for a card among values that are not Cards *)

\* a in xs for the Card object a and a plain list xs: list.__contains__ compares
\* each element x with a by x == a, which for an x that is no Card falls back
\* to Card.__eq__(a, x); the truth value of what it returns decides
FoundIn(h, a, xs) == \E i \in 1..Len(xs) : Eq(h, a, xs[i]).val

\* plain lists of values that are not Cards
PlainLists == { <<>>, <<NonCard>>, <<NonCard, NonCard>> }

\* a in xs
SearchIn(a, xs) ==
    /\ nOps < MaxOps
    /\ last' = Call("in", "deck", a, 0, FALSE, xs, "ok", <<>>, <<>>, FoundIn(heap, a, xs))
    /\ nOps' = nOps + 1
    /\ before' = last
    /\ UNCHANGED <<heap, cards, kind, obj, nObjs>>

FindNext ==
    \/ \E a \in DOMAIN heap : \E b \in Others(a) : CompareEq(a, b)
    \/ \E a \in DOMAIN heap, xs \in PlainLists : SearchIn(a, xs)

FindSpec == TwoCards /\ [][FindNext]_vars

\* C33: card == x has a false truth value for every x that is not a Card, and
\* a card is not found (card in xs) in a list xs of values that are not Cards.
C33_NeverEqualToNonCard ==
    /\ (last.op = "eq" /\ ~IsCard(last.m)) => ~last.val
    /\ (last.op = "in" /\ \A i \in 1..Len(last.args) : ~IsCard(last.args[i])) => ~last.val

====
